---- MODULE Spec2Model ----
(***************************************************************************)
(* A model of ReguLog (src/regulog.py): the Event object, the EventSet     *)
(* store and its query engine, and the multiline match state machine of    *)
(* EventSearchContext.  The code is Python 2: Event is an old-style class  *)
(* whose ordering and equality go through Event.__cmp__.                   *)
(***************************************************************************)
EXTENDS Integers, Sequences, FiniteSets, TLC

VARIABLES
  evs,          \* the Event objects created so far: object id -> Event (alive or deleted)
  sequence,     \* EventSet.sequence: the flat list, of object ids
  lists,        \* EventSet as a dict: event type name -> list of object ids
  curSeqnum,    \* EventSet.curSeqnum
  raised,       \* the exception that aborted the run, or NoError
  executed,     \* the hooks ExecutionContext.execute has run and the display strings
                \* parseDisplay has generated so far, oldest first
  phase,        \* LogSet.search: "search" while the sources are scanned, "wrapup" from
                \* the sort of EventSearchContext.wrapup on
  op,           \* the last operation on the store and the Event object it was called with
  chronological,     \* EventSearchContext.chronological
  scan,              \* LogSource.search: "idle" before the log file is opened, "reading"
                     \* while its lines are read, "closed" once the sentinel has been handled
  logfile,           \* the lines read from the log file so far, oldest first
  searchEventTypes,  \* EventSearchContext.searchEventTypes, the names of the types in it
  lines,             \* EventSearchContext.lines, the deque, newest line first
  unfinishedEvents,  \* EventSearchContext.unfinishedEvents: type name -> staged Event
  linenum,           \* EventSearchContext.linenum
  eventLinesCount,   \* EventSearchContext.eventLinesCount
  storedAt,          \* for each Event object that storeNewEvent has stored, the number
                     \* of lines read from the log file when it was stored
  source,            \* LogSet.search: the number of log files handed to checkSource
  rexPathFilter,     \* LogSet.rexPathFilter, the pattern
  paths,             \* the roots scanPaths was called with, or NoPaths before the call
  sources,           \* LogSet.sources
  singleLogFiles,    \* LogSet.singleLogFiles
  hook               \* the Event object whose Match hook is executing, or NoEvent

storeVars == <<evs, sequence, lists, curSeqnum, raised, executed>>

logSetVars == <<rexPathFilter, paths, sources, singleLogFiles>>

scanVars ==
  <<scan, logfile, searchEventTypes, lines, unfinishedEvents, linenum, eventLinesCount,
    storedAt, source, logSetVars>>

vars == <<storeVars, phase, op, chronological, scanVars, hook>>

----------------------------------------------------------------------------
(* Bounds of the model *)

MaxEvents == 3

MaxTs == 1

MaxLimit == 1

MaxDeleted == 1

MaxLines == 3

MaxHooked == 2

----------------------------------------------------------------------------
(* Values *)

\* datetime.datetime.min, the timestamp of an event without a resolved one
TsMin == 0

Timestamps == TsMin..MaxTs

\* Python's None
None == "<None>"

NoError == "<no error>"

\* The names of the event types of the run (the keys of the EventSet)
EventNames == {"A", "B"}

\* The value the text pattern captures in its named group u
UserValue == "a"

\* str(n) for the integers the model meets
IntStr(n) ==
  IF n < 0 THEN "-" \o <<"0","1","2","3","4","5","6","7","8","9">>[(0 - n) + 1]
           ELSE <<"0","1","2","3","4","5","6","7","8","9">>[n + 1]

\* datetime.isoformat(), str(date()), str(time()) of the model's timestamps:
\* timestamp t is t seconds after the minimum
IsoFormat(t) == "0001-01-01T00:00:0" \o IntStr(t)

DateStr(t) == "0001-01-01"

TimeStr(t) == "00:00:0" \o IntStr(t)

Basename(path) ==
  IF path = "dir/x.log" THEN "x.log"
  ELSE IF path = "dir/y.txt" THEN "y.txt"
  ELSE path

----------------------------------------------------------------------------
(* class Event *)

\* Event.setSeqnum
setSeqnum(e, num) ==
  [e EXCEPT !.seqnum = num,
            !.sfields = ("_sequence_number" :> IntStr(num)) @@ e.sfields]

\* The argument timestamp=None of setTimestamp
NoTimestamp == -1

\* Event.setTimestamp
setTimestamp(e, timestamp) ==
  LET t == IF timestamp # NoTimestamp THEN timestamp ELSE TsMin IN
  [e EXCEPT !.timestamp = t,
            !.sfields = ("_timestamp" :> IsoFormat(t)) @@ ("_date" :> DateStr(t))
                        @@ ("_time" :> TimeStr(t)) @@ e.sfields]

\* Event.setRaw
setRaw(e, raw) == [e EXCEPT !.sfields = ("_raw" :> raw) @@ e.sfields]

\* Event.setLinenum
setLinenum(e, num) ==
  [e EXCEPT !.sfields = ("_line_number" :> IntStr(num)) @@ e.sfields]

\* Event.__init__: the event type is given by its name and its description
EventInit(name, description, path) ==
  LET e0 == [eventType |-> name,
             sfields |-> ("_name" :> name)
                         @@ ("_description" :> description)
                         @@ ("_source_path" :> path)
                         @@ ("_source_filename" :> Basename(path))
                         @@ ("_display_on_match" :> None),
             ufields |-> ("_changed_fields" :> None),
             seqnum |-> -1,
             timestamp |-> TsMin,
             timestampSpan |-> <<0, 0>>]
  IN setTimestamp(setSeqnum(e0, -1), NoTimestamp)

\* Event.parseText: the user fields become the named groups of the text match
parseText(e, groupdict) == [e EXCEPT !.ufields = groupdict]

\* Event.__cmp__ of the Event records a and b: -1 and 1 as "lt" and "gt"; the
\* method falls off its end, returning None, when timestamps and seqnums are equal
Cmp(a, b) ==
  IF a.timestamp # b.timestamp
  THEN (IF a.timestamp < b.timestamp THEN "lt" ELSE "gt")
  ELSE IF a.seqnum # b.seqnum
  THEN (IF a.seqnum < b.seqnum THEN "lt" ELSE "gt")
  ELSE None

----------------------------------------------------------------------------
(* Python lists of Event objects.  An operator that takes s works on the    *)
(* store s = [evs, sequence, lists, curSeqnum, raised, executed] and        *)
(* returns the store after the call.                                        *)

EmptyDict == [k \in {} |-> None]

\* The element of a set of one element: {F(x) : x \in {e}} evaluates e once
Once(set) == CHOOSE x \in set : TRUE

\* The items of a list, as a set
Items(list) == {list[i] : i \in 1..Len(list)}

\* The store held by the variables
Store ==
  [evs |-> evs, sequence |-> sequence, lists |-> lists,
   curSeqnum |-> curSeqnum, raised |-> raised, executed |-> executed]

\* The variables take the values of store s
SetStore(s) ==
  /\ evs' = s.evs
  /\ sequence' = s.sequence
  /\ lists' = s.lists
  /\ curSeqnum' = s.curSeqnum
  /\ raised' = s.raised
  /\ executed' = s.executed

\* `event in list`: the items are compared with the object from the first on;
\* an identical object is equal without a call of __cmp__, any other object is
\* compared through __cmp__, which never returns 0 and whose None is a TypeError
RECURSIVE Contains(_, _, _)
Contains(s, list, event) ==
  IF list = <<>> THEN "false"
  ELSE IF Head(list) = event THEN "true"
  ELSE IF Cmp(s.evs[Head(list)], s.evs[event]) = None THEN "TypeError"
  ELSE Contains(s, Tail(list), event)

\* list.index(event) of an object the list contains, counted from 1
RECURSIVE IndexOf(_, _)
IndexOf(list, event) ==
  IF Head(list) = event THEN 1 ELSE 1 + IndexOf(Tail(list), event)

\* del list[i], i counted from 1
DelAt(list, i) == SubSeq(list, 1, i - 1) \o SubSeq(list, i + 1, Len(list))

\* a < b as list.sort() evaluates it for two Event objects
Lt(s, a, b) == Cmp(s.evs[a], s.evs[b]) = "lt"

\* list.sort() is stable: x goes behind every item that is not greater
RECURSIVE InsertSorted(_, _, _)
InsertSorted(s, list, x) ==
  IF list = <<>> THEN <<x>>
  ELSE IF Lt(s, x, list[Len(list)])
       THEN Append(InsertSorted(s, SubSeq(list, 1, Len(list) - 1), x), list[Len(list)])
       ELSE Append(list, x)

RECURSIVE SortList(_, _)
SortList(s, list) ==
  IF list = <<>> THEN <<>>
  ELSE InsertSorted(s, SortList(s, SubSeq(list, 1, Len(list) - 1)), list[Len(list)])

\* list.sort() raises TypeError when two of its objects compare to None
SortRaises(s, list) ==
  \E i, j \in 1..Len(list) : i < j /\ Cmp(s.evs[list[i]], s.evs[list[j]]) = None

----------------------------------------------------------------------------
(* class EventSet *)

\* An entry of executed: the hook of the phase kind of event type name has
\* run, for a Match hook on the Event object event, which called delete_event
\* on target, for a File hook on the log file number file; or, with the kind
\* Display, parseDisplay has returned for event
Entry(kind, name, event, target, file) ==
  [kind |-> kind, name |-> name, event |-> event, target |-> target, file |-> file]

\* EventSet.__init__
EventSetInit ==
  [evs |-> <<>>, sequence |-> <<>>, lists |-> [k \in EventNames |-> <<>>],
   curSeqnum |-> 0, raised |-> NoError, executed |-> <<>>]

\* add_event numbering by the length of the flat list instead of curSeqnum
add_event_NumberByLength(s, event) ==
  LET id == Len(s.evs) + 1
      e == setSeqnum(event, Len(s.sequence))
  IN [s EXCEPT !.evs = Append(s.evs, e),
               !.curSeqnum = s.curSeqnum + 1,
               !.lists = [s.lists EXCEPT ![e.eventType] = Append(@, id)],
               !.sequence = Append(s.sequence, id)]

\* add_event that leaves curSeqnum as it is
add_event_SameNumber(s, event) ==
  LET id == Len(s.evs) + 1
      e == setSeqnum(event, s.curSeqnum)
  IN [s EXCEPT !.evs = Append(s.evs, e),
               !.lists = [s.lists EXCEPT ![e.eventType] = Append(@, id)],
               !.sequence = Append(s.sequence, id)]

\* EventSet.add_event of a new Event object, which gets the next object id
add_event(s, event) ==
  LET id == Len(s.evs) + 1
      e == setSeqnum(event, s.curSeqnum)
  IN [s EXCEPT !.evs = Append(s.evs, e),
               !.curSeqnum = s.curSeqnum + 1,
               !.lists = [s.lists EXCEPT ![e.eventType] = Append(@, id)],
               !.sequence = Append(s.sequence, id)]

\* delete_event without its second test, the type-keyed list left as it was
delete_event_FlatListOnly(s, event) ==
  LET inSequence == Contains(s, s.sequence, event)
  IN IF inSequence = "TypeError" THEN [s EXCEPT !.raised = "TypeError"]
     ELSE IF inSequence = "true"
          THEN [s EXCEPT !.sequence = DelAt(s.sequence, IndexOf(s.sequence, event))]
          ELSE s

\* EventSet.delete_event
delete_event(s, event) ==
  LET name == s.evs[event].eventType
      inSequence == Contains(s, s.sequence, event)
      s1 == IF inSequence = "true"
            THEN [s EXCEPT !.sequence = DelAt(s.sequence, IndexOf(s.sequence, event))]
            ELSE s
      inList == Contains(s1, s1.lists[name], event)
  IN IF inSequence = "TypeError" THEN [s EXCEPT !.raised = "TypeError"]
     ELSE IF inList = "TypeError" THEN [s1 EXCEPT !.raised = "TypeError"]
     ELSE IF inList = "true"
          THEN [s1 EXCEPT !.lists = [s1.lists EXCEPT ![name] =
                                       DelAt(@, IndexOf(s1.lists[name], event))]]
          ELSE s1

\* sortEvents without its last loop, the sequence numbers left as they were
sortEvents_NoRenumbering(s, order) ==
  LET sorted == [k \in EventNames |-> SortList(s, s.lists[k])]
      extended == sorted[order[1]] \o sorted[order[2]]
  IN [s EXCEPT !.lists = sorted, !.sequence = SortList(s, extended)]

\* EventSet.sortEvents; order is the order in which the dict yields its lists
sortEvents(s, order) ==
  LET sorted == [k \in EventNames |-> SortList(s, s.lists[k])]
      extended == sorted[order[1]] \o sorted[order[2]]
      seq == SortList(s, extended)
      position(id) == CHOOSE i \in 1..Len(seq) : seq[i] = id
      ids == {seq[i] : i \in 1..Len(seq)}
  IN IF \E k \in EventNames : SortRaises(s, s.lists[k])
     THEN [s EXCEPT !.sequence = <<>>, !.raised = "TypeError"]
     ELSE IF SortRaises(s, extended)
     THEN [s EXCEPT !.lists = sorted, !.sequence = extended, !.raised = "TypeError"]
     ELSE [s EXCEPT !.lists = sorted,
                    !.sequence = seq,
                    !.evs = [id \in DOMAIN s.evs |->
                               IF id \in ids THEN setSeqnum(s.evs[id], position(id) - 1)
                                             ELSE s.evs[id]]]

\* The orders in which the dict of the two event types can yield its lists
DictOrders == {<<"A", "B">>, <<"B", "A">>}

\* The arguments of a query: no `fields` / a dictionary; no `before` / a
\* datetime.datetime / an Event object
NoFields == [kind |-> "none"]

FieldsDict(d) == [kind |-> "dict", dict |-> d]

NoBefore == [kind |-> "none"]

BeforeDatetime(t) == [kind |-> "datetime", value |-> t]

BeforeEvent(id) == [kind |-> "event", id |-> id]

\* hasattr(before, attr): an Event has the attributes timestamp and seqnum, a
\* Python 2 datetime.datetime has utcfromtimestamp and neither of the two
HasAttr(before, attr) ==
  \/ before.kind = "event" /\ attr \in {"timestamp", "seqnum"}
  \/ before.kind = "datetime" /\ attr = "utcfromtimestamp"

\* The `before` test with < in place of <= on the sequence numbers
beforeRejects_SeqnumStrict(s, ev, before) ==
  \/ HasAttr(before, "timestamp") /\ s.evs[before.id].timestamp < ev.timestamp
  \/ HasAttr(before, "seqnum") /\ s.evs[before.id].seqnum < ev.seqnum
  \/ HasAttr(before, "utcfromtimestamp") /\ before.value < ev.timestamp

\* The `before` test without the comparison of the timestamps of two events
beforeRejects_SeqnumOnly(s, ev, before) ==
  \/ HasAttr(before, "seqnum") /\ s.evs[before.id].seqnum <= ev.seqnum
  \/ HasAttr(before, "utcfromtimestamp") /\ before.value < ev.timestamp

\* The `before` test with <= in place of < on a datetime
beforeRejects_DatetimeStrict(s, ev, before) ==
  \/ HasAttr(before, "timestamp") /\ s.evs[before.id].timestamp < ev.timestamp
  \/ HasAttr(before, "seqnum") /\ s.evs[before.id].seqnum <= ev.seqnum
  \/ HasAttr(before, "utcfromtimestamp") /\ before.value <= ev.timestamp

\* The `before` test of get_events on the stored event ev: TRUE when it rejects
beforeRejects(s, ev, before) ==
  \/ HasAttr(before, "timestamp") /\ s.evs[before.id].timestamp < ev.timestamp
  \/ HasAttr(before, "seqnum") /\ s.evs[before.id].seqnum <= ev.seqnum
  \/ HasAttr(before, "utcfromtimestamp") /\ before.value < ev.timestamp

\* The `fields` test of get_events for one key: TRUE when it rejects
fieldRejects(ev, fields, kf) ==
  \/ kf \notin DOMAIN ev.sfields /\ kf \notin DOMAIN ev.ufields
  \/ kf \in DOMAIN ev.ufields /\ ev.ufields[kf] # fields[kf]
  \/ kf \in DOMAIN ev.sfields /\ ev.sfields[kf] # fields[kf]

\* isMatching at the final test of the loop body of get_events
isMatching(s, id, name, fields, before) ==
  LET ev == s.evs[id] IN
  /\ ~(name # None /\ ev.eventType # name)
  /\ fields.kind = "none" \/ \A kf \in DOMAIN fields.dict : ~fieldRejects(ev, fields.dict, kf)
  /\ before.kind = "none" \/ ~beforeRejects(s, ev, before)

\* The loop of get_events over reversed(list), about to look at list[i] after
\* num yields; the value is the sequence of the events it yields from there on
RECURSIVE getEventsFrom(_, _, _, _, _, _, _, _)
getEventsFrom(s, list, i, num, name, fields, before, limit) ==
  IF i < 1 THEN <<>>
  ELSE IF isMatching(s, list[i], name, fields, before)
       THEN IF num + 1 = limit
            THEN <<list[i]>>
            ELSE <<list[i]>> \o getEventsFrom(s, list, i - 1, num + 1, name, fields, before, limit)
       ELSE getEventsFrom(s, list, i - 1, num, name, fields, before, limit)

\* get_events without the break at the limit
get_events_NoLimit(s, name, fields, before, limit) ==
  LET list == IF name = None THEN s.sequence ELSE s.lists[name] IN
  getEventsFrom(s, list, Len(list), 0, name, fields, before, 0)

\* EventSet.get_events, consumed to its end by a caller that leaves the store
\* alone: the sequence of the events it yields (name is a known event type or None)
get_events(s, name, fields, before, limit) ==
  LET list == IF name = None THEN s.sequence ELSE s.lists[name] IN
  getEventsFrom(s, list, Len(list), 0, name, fields, before, limit)

\* The generator of get_events resumed with its reversed-list iterator at
\* position i of the list as it is now: the iterator ends when i is not a
\* position of the list, otherwise it hands out list[i] and steps down; the value
\* is the event yielded, or 0 when the generator returns, and the position
\* the iterator is left at
RECURSIVE resume(_, _, _, _, _, _)
resume(s, list, i, name, fields, before) ==
  IF i < 1 \/ i > Len(list) THEN [event |-> 0, index |-> 0]
  ELSE IF isMatching(s, list[i], name, fields, before)
       THEN [event |-> list[i], index |-> i - 1]
       ELSE resume(s, list, i - 1, name, fields, before)

\* get_event returns None
NoEvent == 0

\* get_event that returns the oldest of the matching events
get_event_Oldest(s, name, fields, before) ==
  LET got == get_events(s, name, fields, before, 0) IN
  IF got # <<>> THEN got[Len(got)] ELSE NoEvent

\* EventSet.get_event
get_event(s, name, fields, before) ==
  LET got == get_events(s, name, fields, before, 1) IN
  IF got # <<>> THEN got[1] ELSE NoEvent

----------------------------------------------------------------------------
(* Text, patterns and event types.  A text is a sequence of tokens; the     *)
(* lines of a multiline text are separated by the token NL.                 *)

NL == "<NL>"

\* The wildcard of a text pattern
Dot == "."

\* The tokens a timestamp pattern matches: the seconds of the timestamps later
\* than the minimum
StampTokens == {IntStr(ts) : ts \in (TsMin + 1)..MaxTs}

\* The tokens only the timestamp pattern of B matches: a timestamp of the
\* second TsMin + 1 with one more named group, k in the first token and u in
\* the second
AltStamp == "T1"

DupStamp == "U1"

\* The same with a timestamp one second later
DupLater == "U2"

\* The timestamp a stamp token stands for
StampValue(token) ==
  IF token \in {AltStamp, DupStamp} THEN TsMin + 1
  ELSE IF token = DupLater THEN TsMin + 2
  ELSE CHOOSE ts \in (TsMin + 1)..MaxTs : IntStr(ts) = token

\* The named groups of a timestamp match whose names do not start with "_"
\* and that captured a value
UserGroups(token) ==
  IF token = AltStamp THEN ("k" :> token)
  ELSE IF token \in {DupStamp, DupLater} THEN ("u" :> token)
  ELSE EmptyDict

\* The lines a log file is made of
Lines ==
  {<<>>, <<"a">>, <<"b">>}
    \cup {<<token>> \o text : token \in StampTokens \cup {AltStamp, DupStamp},
                              text \in {<<"a">>, <<"b">>}}

\* The argument line=None of checkLine
EndOfFile == <<None>>

\* The path of the log file
SourcePath == "dir/x.log"

\* An event type without a display string
NoTemplate == <<>>

\* The display string of the event types: a lookup of the latest event A with
\* the same u, a lookup with a comparison field v, and the field w
DisplayOnMatch ==
  <<"{", "_sequence_number", "@", "A", ":", "u", "=", "u", "}", "\\t",
    "{", "u", "@", "B", ":", "u", "=", "v", "}", "\\t",
    "{", "w", "}">>

\* The event types of the run, as EventType.init leaves them: A looks for the
\* token a in one line, B for a token a, a line break and one more token in a
\* window of three lines.  A accepts every file name, B the names with .log.
\* B is immediate, A is displayed if changed.
EventTypes ==
  [name \in EventNames |->
     [name |-> name,
      description |-> "N/A",
      multilineCount |-> IF name = "A" THEN 1 ELSE 3,
      rexText |-> IF name = "A" THEN <<"a">> ELSE <<"a", NL, Dot>>,
      rexTimestamp |-> IF name = "A" THEN StampTokens
                       ELSE StampTokens \cup {AltStamp, DupStamp, DupLater},
      rexFilename |-> IF name = "A" THEN <<>> ELSE <<".log">>,
      immediate |-> name = "B",
      displayIfChanged |-> name = "A",
      displayOnMatch |-> DisplayOnMatch]]

\* The flags of the compiled text pattern: the wildcard matches a line break
\* when multilineCount > 1 (re.DOTALL)
DotAll(evt) == evt.multilineCount > 1

\* The pattern matches the text from offset start on
MatchesAt(pattern, text, start, dotall) ==
  /\ start + Len(pattern) <= Len(text)
  /\ \A j \in 1..Len(pattern) :
       IF pattern[j] = Dot THEN dotall \/ text[start + j] # NL
                           ELSE text[start + j] = pattern[j]

\* No match of a pattern
NoMatch == [found |-> FALSE, span |-> <<0, 0>>, groupdict |-> EmptyDict]

\* EventType.searchText: the leftmost match of the text pattern, with its
\* span() and its groupdict(), whose group u holds the last token matched
\* (nothing for a match of length zero)
searchText(evt, text) ==
  LET starts == {i \in 0..Len(text) : MatchesAt(evt.rexText, text, i, DotAll(evt))}
      start == CHOOSE i \in starts : \A k \in starts : i <= k
      end == start + Len(evt.rexText)
  IN IF starts = {} THEN NoMatch
     ELSE [found |-> TRUE, span |-> <<start, end>>,
           groupdict |-> ("u" :> IF end > start THEN text[end] ELSE "")]

\* EventType.searchTimestamp: the timestamp pattern is anchored at the start
\* of the text and matches one stamp token
searchTimestamp(evt, text) == text # <<>> /\ text[1] \in evt.rexTimestamp

----------------------------------------------------------------------------
(* The field functions of class Event advertised to the Python code         *)

\* The names of the system fields
SystemFieldNames ==
  {"_name", "_description", "_source_path", "_source_filename", "_raw", "_line_number",
   "_sequence_number", "_timestamp", "_date", "_time", "_changed_fields",
   "_display_on_match"}

\* Event.set_field: the event after the call, and whether the call raised
set_field(e, name, value) ==
  IF name \in DOMAIN e.sfields
  THEN [raised |-> TRUE, event |-> e]
  ELSE [raised |-> FALSE, event |-> [e EXCEPT !.ufields = (name :> value) @@ @]]

\* The loop of set_fields over the items of the dictionary left in keys
RECURSIVE setFieldsOf(_, _, _)
setFieldsOf(e, dictionary, keys) ==
  IF keys = {} THEN e
  ELSE LET name == CHOOSE k \in keys : TRUE IN
       setFieldsOf(set_field(e, name, dictionary[name]).event, dictionary, keys \ {name})

\* Event.set_fields
set_fields(e, dictionary) == setFieldsOf(e, dictionary, DOMAIN dictionary)

\* Event.add_field
add_field(e, name, value) ==
  IF name \in DOMAIN e.sfields \/ name \in DOMAIN e.ufields
  THEN [raised |-> TRUE, event |-> e]
  ELSE [raised |-> FALSE, event |-> [e EXCEPT !.ufields = (name :> value) @@ @]]

\* The loop of add_fields over the items of the dictionary left in keys
RECURSIVE addFieldsOf(_, _, _)
addFieldsOf(e, dictionary, keys) ==
  IF keys = {} THEN e
  ELSE LET name == CHOOSE k \in keys : TRUE IN
       addFieldsOf(add_field(e, name, dictionary[name]).event, dictionary, keys \ {name})

\* Event.add_fields
add_fields(e, dictionary) == addFieldsOf(e, dictionary, DOMAIN dictionary)

\* parseTimestamp that takes a text without a timestamp for one with the
\* minimum timestamp instead of raising
parseTimestamp_NeverRaises(e, alternativeText) ==
  IF searchTimestamp(EventTypes[e.eventType], alternativeText)
  THEN [raised |-> FALSE,
        event |-> [setTimestamp(e, StampValue(alternativeText[1]))
                     EXCEPT !.timestampSpan = <<0, 1>>]]
  ELSE [raised |-> FALSE, event |-> e]

\* Event.parseTimestamp(alternativeText): an empty alternativeText makes it read
\* the system field _raw, a KeyError while the field is not set; a text the
\* timestamp pattern does not match fails the assertion.  The timestamp and
\* its span are set before add_field is called for the other named groups,
\* and add_field raises for a user field the event has.
parseTimestamp(e, alternativeText) ==
  LET readsRaw == alternativeText = <<>>
      text == IF ~readsRaw THEN alternativeText
              ELSE IF "_raw" \in DOMAIN e.sfields THEN e.sfields["_raw"] ELSE <<>>
      stamped == [setTimestamp(e, StampValue(text[1])) EXCEPT !.timestampSpan = <<0, 1>>]
      tsfields == UserGroups(text[1])
      added == addFieldsOf(stamped, tsfields, DOMAIN tsfields)
  IN IF \/ readsRaw /\ "_raw" \notin DOMAIN e.sfields
        \/ ~searchTimestamp(EventTypes[e.eventType], text)
     THEN [raised |-> TRUE, event |-> e]
     ELSE [raised |-> \E k \in DOMAIN tsfields : add_field(stamped, k, tsfields[k]).raised,
           event |-> added]

\* get_field raises RuntimeError
FieldNotFound == "<RuntimeError: Field not found>"

\* str(dict)
DictStr(d) == <<"str", d>>

\* str.replace('\n', '') of a text
Flat(text) == SelectSeq(text, LAMBDA token : token # NL)

\* Event.get_field
get_field(e, name) ==
  LET raw == e.sfields["_raw"]
      core == SubSeq(raw, 1, e.timestampSpan[1])
                \o SubSeq(raw, e.timestampSpan[2] + 1, Len(raw))
  IN IF name \in DOMAIN e.ufields THEN e.ufields[name]
     ELSE IF name \in DOMAIN e.sfields THEN e.sfields[name]
     ELSE IF name = "_user_fields" THEN DictStr(e.ufields)
     ELSE IF name = "_system_fields" THEN DictStr(e.sfields)
     ELSE IF name = "_flat" THEN Flat(raw)
     ELSE IF name = "_core" THEN core
     ELSE IF name = "_flat_core" THEN Flat(core)
     ELSE FieldNotFound

\* The order in which a dict of user fields yields its keys
FieldOrder == <<"_changed_fields", "k", "u", "v", "w">>

\* The keys of the set, joined by commas in that order
RECURSIVE JoinKeys(_, _)
JoinKeys(keys, i) ==
  IF i > Len(FieldOrder) THEN ""
  ELSE LET rest == JoinKeys(keys, i + 1) IN
       IF FieldOrder[i] \notin keys THEN rest
       ELSE IF rest = "" THEN FieldOrder[i]
       ELSE FieldOrder[i] \o "," \o rest

\* Event.has_field
has_field(e, name) ==
  \/ name \in {"_user_fields", "_system_fields", "_flat", "_core", "_flat_core"}
  \/ name \in DOMAIN e.ufields
  \/ name \in DOMAIN e.sfields

----------------------------------------------------------------------------
(* Display strings.  A template is a sequence of tokens: the characters     *)
(* with a meaning in a placeholder, the escape sequences, and the names     *)
(* and literal texts between them.                                          *)

Open == "{"

Close == "}"

At == "@"

Colon == ":"

Equals == "="

Space == " "

\* The two characters backslash and t, backslash and n of a template
EscapedTab == "\\t"

EscapedNL == "\\n"

\* The tab character
Tab == "<TAB>"

\* The characters str.strip removes
Whitespace == {Space, Tab, NL}

\* The string the tokens of a text make
RECURSIVE JoinTokens(_)
JoinTokens(text) ==
  IF text = <<>> THEN "" ELSE Head(text) \o JoinTokens(Tail(text))

\* text.replace(r"\t", "\t").replace(r"\n", "\n")
Unescape(text) ==
  [i \in 1..Len(text) |->
     IF text[i] = EscapedTab THEN Tab
     ELSE IF text[i] = EscapedNL THEN NL
     ELSE text[i]]

\* str.strip
RECURSIVE Strip(_)
Strip(text) ==
  IF text = <<>> THEN text
  ELSE IF Head(text) \in Whitespace THEN Strip(Tail(text))
  ELSE IF text[Len(text)] \in Whitespace THEN Strip(SubSeq(text, 1, Len(text) - 1))
  ELSE text

\* str.partition: the text before the first separator, whether there is one,
\* and the text after it
Partition(text, separator) ==
  LET found == {i \in 1..Len(text) : text[i] = separator} IN
  IF found = {} THEN [head |-> text, sep |-> FALSE, tail |-> <<>>]
  ELSE LET i == CHOOSE j \in found : \A k \in found : j <= k IN
       [head |-> SubSeq(text, 1, i - 1), sep |-> TRUE,
        tail |-> SubSeq(text, i + 1, Len(text))]

\* The end of the match of the pattern {[^{}]+} at text[i], or 0 without a match
PlaceholderEnd(text, i) ==
  LET braces == {j \in (i + 1)..Len(text) : text[j] \in {Open, Close}} IN
  IF text[i] # Open \/ braces = {} THEN 0
  ELSE LET j == CHOOSE k \in braces : \A l \in braces : k <= l IN
       IF text[j] = Close /\ j > i + 1 THEN j ELSE 0

\* A value a hook gives a field that is not a string: an int
HookNumber == "<int 1>"

\* isinstance(value, basestring)
IsString(value) == value # HookNumber

\* The tuple DictStr makes, as a string: the keys of the dict
DictRepr(d) == Open \o JoinKeys(DOMAIN d[2], 1) \o Close

\* Event.get_field as replaceFields uses its result: a text is a Python string
fieldValue(e, name) ==
  LET value == get_field(e, name) IN
  IF name \in DOMAIN e.ufields THEN value
  ELSE IF name \in DOMAIN e.sfields
       THEN (IF name = "_raw" THEN JoinTokens(value) ELSE value)
  ELSE IF name \in {"_user_fields", "_system_fields"} THEN DictRepr(value)
  ELSE JoinTokens(value)

\* The body of the loop of replaceFields for the placeholder with the text
\* src between its braces: the value of trans before the test for None
placeholder(s, event, src) ==
  LET e == s.evs[event]
      atParts == Partition(Strip(src), At)
      fieldname == JoinTokens(atParts.head)
      colonParts == Partition(atParts.tail, Colon)
      evname == JoinTokens(colonParts.head)
      equalsParts == Partition(colonParts.tail, Equals)
      rfieldname == JoinTokens(equalsParts.head)
      cfieldname == JoinTokens(equalsParts.tail)
      lookup ==
        IF ~colonParts.sep
        THEN [trans |-> "NO MATCHING EVENT",
              ev |-> get_event(s, evname, NoFields, BeforeEvent(event))]
        ELSE IF ~equalsParts.sep
        THEN [trans |-> "LOOKUP CONDITION '" \o JoinTokens(colonParts.tail) \o "' NOT VALID",
              ev |-> NoEvent]
        ELSE IF ~has_field(e, cfieldname)
        THEN [trans |-> "COMPARISON FIELD '" \o fieldname \o "' NOT FOUND",
              ev |-> NoEvent]
        ELSE [trans |-> "NO MATCHING EVENT",
              ev |-> get_event(s, evname,
                               FieldsDict(rfieldname :> fieldValue(e, cfieldname)),
                               BeforeEvent(event))]
  IN IF ~atParts.sep
     THEN (IF has_field(e, fieldname) THEN fieldValue(e, fieldname)
           ELSE "FIELD '" \o fieldname \o "' NOT FOUND")
     ELSE IF evname \notin DOMAIN s.lists
     THEN "EVENT TYPE '" \o evname \o "' NOT FOUND"
     ELSE IF lookup.ev # NoEvent
     THEN (IF has_field(s.evs[lookup.ev], fieldname)
           THEN fieldValue(s.evs[lookup.ev], fieldname)
           ELSE "FIELD '" \o fieldname \o "' NOT IN FOUND EVENT")
     ELSE lookup.trans

\* The loop of replaceFields over the parts re.split makes of the text, from
\* text[i] on: the string built, or a TypeError where a value that is not a
\* string is concatenated
RECURSIVE replaceFrom(_, _, _, _)
replaceFrom(s, event, text, i) ==
  IF i > Len(text) THEN [raised |-> FALSE, res |-> ""]
  ELSE LET close == PlaceholderEnd(text, i) IN
       IF close = 0
       THEN [replaceFrom(s, event, text, i + 1) EXCEPT !.res = text[i] \o @]
       ELSE LET value == placeholder(s, event, SubSeq(text, i + 1, close - 1))
                trans == IF value = None THEN "N/A" ELSE value
            IN IF ~IsString(trans) THEN [raised |-> TRUE, res |-> ""]
               ELSE [replaceFrom(s, event, text, close + 1) EXCEPT !.res = trans \o @]

\* Event.replaceFields of the stored event `event` with the EventSet s
replaceFields(s, event, text) == replaceFrom(s, event, Unescape(text), 1)

\* parseDisplay that lists the user fields of the previous event too
parseDisplay_ListsRemoved(s, event, previousEvent) ==
  LET e == s.evs[event]
      changed == IF previousEvent = NoEvent THEN {}
                 ELSE {k \in DOMAIN e.ufields \cup DOMAIN s.evs[previousEvent].ufields :
                         \/ k \notin DOMAIN s.evs[previousEvent].ufields
                         \/ k \notin DOMAIN e.ufields
                         \/ s.evs[previousEvent].ufields[k] # e.ufields[k]}
      res == JoinKeys(changed, 1)
      displayOnMatch == EventTypes[e.eventType].displayOnMatch
      entry == Entry("Display", e.eventType, event, NoEvent, 0)
  IN Once({IF displayOnMatch = NoTemplate THEN [s1 EXCEPT !.executed = Append(@, entry)]
           ELSE Once({IF display.raised THEN [s1 EXCEPT !.raised = "TypeError"]
                      ELSE [s1 EXCEPT !.evs[event].sfields =
                                        ("_display_on_match" :> display.res) @@ @,
                                      !.executed = Append(@, entry)] :
                        display \in {replaceFields(s1, event, displayOnMatch)}}) :
             s1 \in {[s EXCEPT !.evs[event].sfields =
                                 ("_changed_fields" :> (IF res # "" THEN res ELSE None)) @@ @]}})

\* Event.parseDisplay of the stored event `event` in store s, previousEvent a
\* stored event or NoEvent
parseDisplay(s, event, previousEvent) ==
  LET e == s.evs[event]
      changed == IF previousEvent = NoEvent THEN {}
                 ELSE {k \in DOMAIN e.ufields :
                         \/ k \notin DOMAIN s.evs[previousEvent].ufields
                         \/ s.evs[previousEvent].ufields[k] # e.ufields[k]}
      res == JoinKeys(changed, 1)
      displayOnMatch == EventTypes[e.eventType].displayOnMatch
      entry == Entry("Display", e.eventType, event, NoEvent, 0)
  IN Once({IF displayOnMatch = NoTemplate THEN [s1 EXCEPT !.executed = Append(@, entry)]
           ELSE Once({IF display.raised THEN [s1 EXCEPT !.raised = "TypeError"]
                      ELSE [s1 EXCEPT !.evs[event].sfields =
                                        ("_display_on_match" :> display.res) @@ @,
                                      !.executed = Append(@, entry)] :
                        display \in {replaceFields(s1, event, displayOnMatch)}}) :
             s1 \in {[s EXCEPT !.evs[event].sfields =
                                 ("_changed_fields" :> (IF res # "" THEN res ELSE None)) @@ @]}})

\* Event.display prints nothing
NoOutput == <<>>

\* Event.display: the line it prints, the timestamp hidden or not
display(e, hideTimestamp) ==
  LET evt == EventTypes[e.eventType]
      t == IF ~hideTimestamp THEN e.sfields["_timestamp"] ELSE ""
  IN IF /\ e.sfields["_display_on_match"] \notin {None, ""}
        /\ \/ evt.displayIfChanged /\ e.sfields["_changed_fields"] # None
           \/ ~evt.displayIfChanged
     THEN <<t, " ", e.sfields["_display_on_match"]>>
     ELSE NoOutput

----------------------------------------------------------------------------
(* class EventSearchContext.  An operator that takes c works on the context *)
(* c = [s, lines, unfinishedEvents, linenum, eventLinesCount, storedAt],    *)
(* s the store, and returns the context after the call.                     *)

\* maxlen of the deque of the previous lines
DequeMaxLen == 100

\* The context held by the variables
Context ==
  [s |-> Store, lines |-> lines, unfinishedEvents |-> unfinishedEvents,
   linenum |-> linenum, eventLinesCount |-> eventLinesCount, storedAt |-> storedAt]

\* The variables take the values of context c
SetContext(c) ==
  /\ SetStore(c.s)
  /\ lines' = c.lines
  /\ unfinishedEvents' = c.unfinishedEvents
  /\ linenum' = c.linenum
  /\ eventLinesCount' = c.eventLinesCount
  /\ storedAt' = c.storedAt

\* deque.appendleft on a deque with a maxlen
appendleft(deque, line) ==
  LET longer == <<line>> \o deque IN
  IF Len(longer) > DequeMaxLen THEN SubSeq(longer, 1, DequeMaxLen) ELSE longer

\* EventSearchContext.getMultiline on the deque ls
RECURSIVE getMultiline(_, _)
getMultiline(ls, num) ==
  LET n == IF num < Len(ls) THEN num ELSE Len(ls) IN
  IF n <= 0 THEN <<>>
  ELSE IF n = 1 THEN ls[1]
  ELSE ls[n] \o <<NL>> \o getMultiline(ls, n - 1)

\* storeNewEvent up to the call of add_event: the raw text and the line number
\* are set and the event is stored
storeNewEventAdd(c, ev, count) ==
  LET e == setLinenum(setRaw(ev, getMultiline(c.lines, count)), c.linenum - (count + 1))
  IN [c EXCEPT !.s = add_event(c.s, e), !.storedAt = Append(@, c.linenum)]

\* storeNewEvent that generates the display string of an event its hook deleted
storeNewEventDisplay_OfDeleted(s, event) ==
  LET list == s.lists[s.evs[event].eventType]
      pev == IF Len(list) > 1 THEN list[Len(list) - 1] ELSE NoEvent
  IN parseDisplay(s, event, pev)

\* storeNewEvent after the Match hook of the stored event `event` has returned
storeNewEventDisplay(s, event) ==
  LET list == s.lists[s.evs[event].eventType]
      stored == Contains(s, list, event)
      pev == IF Len(list) > 1 THEN list[Len(list) - 1] ELSE NoEvent
  IN IF stored = "TypeError" THEN [s EXCEPT !.raised = "TypeError"]
     ELSE IF stored = "true" THEN parseDisplay(s, event, pev)
     ELSE s

\* EventSearchContext.storeNewEvent for an event type without Python code
storeNewEvent(c, ev, count) ==
  Once({IF EventTypes[ev.eventType].immediate \/ ~chronological
        THEN [c1 EXCEPT !.s = storeNewEventDisplay(c1.s, Len(c1.s.evs))]
        ELSE c1 :
          c1 \in {storeNewEventAdd(c, ev, count)}})

\* The first loop of checkLine, over the staged events of the types in names
RECURSIVE finishUnfinished(_, _, _)
finishUnfinished(c, names, line) ==
  IF names = <<>> THEN c
  ELSE IF line = EndOfFile \/ searchTimestamp(EventTypes[Head(names)], line)
       THEN LET name == Head(names) IN
            Once({finishUnfinished(
                    [c1 EXCEPT !.unfinishedEvents =
                                 [k \in DOMAIN @ \ {name} |-> c.unfinishedEvents[k]]],
                    Tail(names), line) :
                    c1 \in {storeNewEvent(c, c.unfinishedEvents[name], c.eventLinesCount)}})
       ELSE finishUnfinished(c, Tail(names), line)

\* The loop of checkLine that looks for a timestamp in the lines of the deque
\* from ls[i] on, count being eventLinesCount
RECURSIVE scanTimestamp(_, _, _, _)
scanTimestamp(ev, ls, i, count) ==
  IF i > Len(ls) THEN [timestampFound |-> FALSE, event |-> ev, eventLinesCount |-> 1]
  ELSE LET parsed == parseTimestamp(ev, ls[i]) IN
       IF ~parsed.raised
       THEN [timestampFound |-> TRUE, event |-> parsed.event, eventLinesCount |-> count]
       ELSE scanTimestamp(parsed.event, ls, i + 1, count + 1)

\* The test of checkLine that accepts every match of the text pattern
endsInLine_Always(multiline, rexResult, line) == TRUE

\* The test of checkLine on a match of the text pattern in the window: the
\* match is on the last line of the multiline string
endsInLine(multiline, rexResult, line) ==
  Len(multiline) - rexResult.span[2] < Len(line)

\* The warning of checkLine that ignores the verbosity
warnNoTimestamp_Silent(ev, multiline, verbosity) == ev

\* checkLine when no timestamp was found for the new event ev: from verbosity
\* 2 on it prints a warning and calls parseTimestamp on the multiline string
\* to print the exception; the value is the Event object after that
warnNoTimestamp(ev, multiline, verbosity) ==
  IF verbosity >= 2 THEN parseTimestamp(ev, multiline).event ELSE ev

\* The second loop of checkLine, over the event types in types; finishEvents
\* is True in the one call of checkLine
RECURSIVE searchTypes(_, _, _, _)
searchTypes(c, types, line, verbosity) ==
  IF types = <<>> THEN c
  ELSE LET evt == EventTypes[Head(types)]
           multiline == IF evt.multilineCount = 1 THEN line
                        ELSE getMultiline(c.lines, evt.multilineCount)
           rexResult == searchText(evt, multiline)
           ev == parseText(EventInit(evt.name, evt.description, SourcePath),
                           rexResult.groupdict)
           scanned == scanTimestamp(ev, c.lines, 1, 1)
           c1 == [c EXCEPT !.eventLinesCount = scanned.eventLinesCount]
       IN IF /\ evt.name \notin DOMAIN c.unfinishedEvents
             /\ rexResult.found
             /\ endsInLine(multiline, rexResult, line)
          THEN Once({searchTypes(c2, Tail(types), line, verbosity) :
                       c2 \in {IF ~scanned.timestampFound
                               THEN storeNewEvent(c1, warnNoTimestamp(scanned.event, multiline,
                                                                      verbosity),
                                                  c1.eventLinesCount)
                               ELSE [c1 EXCEPT !.unfinishedEvents =
                                                 (evt.name :> scanned.event) @@ @]}})
          ELSE searchTypes(c, Tail(types), line, verbosity)

\* checkLine that leaves the staged events where they are when it is called
\* with line=None
checkLine_KeepsStaged(c, line, order) ==
  LET staged == SelectSeq(order, LAMBDA name : name \in DOMAIN c.unfinishedEvents) IN
  Once({IF line # EndOfFile
        THEN Once({searchTypes(c2, searchEventTypes, line, 1) :
                     c2 \in {[c1 EXCEPT !.lines = appendleft(@, line), !.linenum = @ + 1]}})
        ELSE c1 :
          c1 \in {IF staged # <<>> /\ line # EndOfFile
                  THEN [finishUnfinished(c, staged, line) EXCEPT !.eventLinesCount = @ + 1]
                  ELSE c}})

\* EventSearchContext.checkLine of a context of the given verbosity, consumed
\* to its end; order is the order in which the dict of the staged events
\* yields its values
checkLineVerbosity(c, line, order, verbosity) ==
  LET staged == SelectSeq(order, LAMBDA name : name \in DOMAIN c.unfinishedEvents) IN
  Once({IF line # EndOfFile
        THEN Once({searchTypes(c2, searchEventTypes, line, verbosity) :
                     c2 \in {[c1 EXCEPT !.lines = appendleft(@, line), !.linenum = @ + 1]}})
        ELSE c1 :
          c1 \in {IF staged # <<>>
                  THEN [finishUnfinished(c, staged, line) EXCEPT !.eventLinesCount = @ + 1]
                  ELSE c}})

\* checkLine of a context whose verbosity is 1, the default of the command line
checkLine(c, line, order) == checkLineVerbosity(c, line, order, 1)

----------------------------------------------------------------------------
(* The store under the calls the engine and the hooks make on it            *)

\* groupdict() of a match of the text pattern, which has the one named group u
GroupDict == ("u" :> UserValue)

\* An event as storeNewEvent hands it to add_event: created, its text and
\* timestamp parsed, its raw text and line number set
FoundEvent(name, timestamp) ==
  setLinenum(
    setRaw(setTimestamp(parseText(EventInit(name, EventTypes[name].description, SourcePath), GroupDict),
                        timestamp),
           <<"a">>),
    1)

----------------------------------------------------------------------------
(* class LogSource and class LogSet.  A path is a sequence of tokens: names, *)
(* extensions and separators.  The file system is that of a Windows build,  *)
(* where os.sep is the backslash and both separators are valid in a path.   *)

Slash == "/"

Backslash == "\\"

\* os.sep
Sep == Backslash

\* str.replace("\\", "/")
ForwardSlashes(path) ==
  [i \in 1..Len(path) |-> IF path[i] = Backslash THEN Slash ELSE path[i]]

\* The wildcard .* of a pattern
DotStar == ".*"

\* The lower case of a token
Lower(token) ==
  IF token = "D" THEN "d"
  ELSE IF token = ".TAR" THEN ".tar"
  ELSE token

\* The pattern matches the whole of the text, compiled with re.IGNORECASE
RECURSIVE Matches(_, _)
Matches(pattern, text) ==
  IF pattern = <<>> THEN text = <<>>
  ELSE IF Head(pattern) = DotStar
       THEN \E k \in 0..Len(text) :
               /\ \A j \in 1..k : text[j] # NL
               /\ Matches(Tail(pattern), SubSeq(text, k + 1, Len(text)))
  ELSE /\ text # <<>>
       /\ IF Head(pattern) = Dot THEN Head(text) # NL
          ELSE Lower(Head(pattern)) = Lower(Head(text))
       /\ Matches(Tail(pattern), Tail(text))

\* pattern.search(text)
rexSearch(pattern, text) ==
  \E i \in 0..Len(text), k \in 0..Len(text) :
     i <= k /\ Matches(pattern, SubSeq(text, i + 1, k))

\* pattern.match(text)
rexMatch(pattern, text) ==
  \E k \in 0..Len(text) : Matches(pattern, SubSeq(text, 1, k))

\* The result of checkPathFilter: whether it is not None, and the groupdict
PathFields(matched) == [matched |-> matched, fields |-> EmptyDict]

\* checkPathFilter with search in the place of match
checkPathFilter_Search(filter, path) ==
  PathFields(rexSearch(filter, ForwardSlashes(path)))

\* LogSet.checkPathFilter, filter being self.rexPathFilter
checkPathFilter(filter, path) ==
  PathFields(rexMatch(filter, ForwardSlashes(path)))

\* The directories of the file system
Dirs == {<<"d">>}

\* os.walk of a directory: the names of its files
Walk == << <<"x", ".log">>, <<"t", ".tar">>, <<"z", ".zip">> >>

\* The extensions of the archives (extarchive)
ArchiveExtensions == {".tar", ".zip"}

\* The names of the members of the tar archive d/t.tar, two of them twice
Members ==
  << <<"x", ".log">>, <<"x", ".log">>, <<"y", ".txt">>, <<"i", ".tar">>, <<"i", ".tar">> >>

\* The names of the members of the zip archive d/z.zip
ZipMembers == << <<"x", ".log">>, <<"i", ".tar">> >>

\* The names of the members of an embedded tar archive i.tar
InnerMembers == << <<"p", ".log">> >>

\* The names of the members of the tar archive e.tar: a log file and a
\* directory o.zip
OuterMembers == << <<"q", ".log">>, <<"o", ".zip">> >>

\* The members of the tar archives that are directories
DirEntries == {<<"o", ".zip">>}

\* TarInfo.isreg of a member
isreg(name) == name \notin DirEntries

\* The names of the members of the archive of a path
MembersOf(path) ==
  IF ForwardSlashes(path) = <<"d", Slash, "t", ".tar">> THEN Members
  ELSE IF path = <<"e", ".tar">> THEN OuterMembers
  ELSE IF ForwardSlashes(path) = <<"d", Slash, "z", ".zip">> THEN ZipMembers
  ELSE InnerMembers

\* The file objects scanPath is given: none, the one of tar.extractfile and
\* the one of zip.open, which has neither seek nor tell
NoFile == "no file"

ExFileObject == "ExFileObject"

ZipExtFile == "ZipExtFile"

\* os.path.isdir
isdir(path) == ForwardSlashes(path) \in Dirs

\* os.path.isfile
isfile(path) ==
  \/ \E i \in 1..Len(Walk) : ForwardSlashes(path) = <<"d", Slash>> \o Walk[i]
  \/ path = <<"e", ".tar">>

\* archivePathRex.search
isArchiveName(path) == path # <<>> /\ Lower(path[Len(path)]) \in ArchiveExtensions

\* tarfile.open succeeds
isTar(path) == path # <<>> /\ path[Len(path)] = ".tar"

\* zipfile.ZipFile succeeds
isZip(path) == path # <<>> /\ path[Len(path)] = ".zip"

\* The archive scanPath opens: tarfile.open is tried first and zipfile.ZipFile
\* next; both raise on a file object without seek ("seek" error)
OpenArchive(path, file) ==
  IF file = ZipExtFile THEN None
  ELSE IF isTar(path) THEN "TAR"
  ELSE IF isZip(path) THEN "ZIP"
  ELSE None

\* os.path.join
join(path, name) ==
  IF path = <<>> THEN name
  ELSE IF path[Len(path)] \in {Slash, Backslash} THEN path \o name
  ELSE path \o <<Sep>> \o name

\* os.path.relpath of a file of the directory start
relpath(path, start) == SubSeq(path, Len(start) + 2, Len(path))

\* LogSource.__init__
LogSourceInit(type, path) == [type |-> type, path |-> path, logs |-> <<>>]

\* LogSource.getPseudoPath
getPseudoPath(src, logpath) == ForwardSlashes(join(src.path, logpath))

\* LogSource.add
add(src, logpath) ==
  LET spath == IF src.type = "DIR" THEN relpath(logpath, src.path) ELSE logpath IN
  [src EXCEPT !.logs = Append(@, [path |-> spath, pseudoPath |-> getPseudoPath(src, spath)])]

\* LogSource.count
sourceCount(src) == Len(src.logs)

\* The choice that tests the archive extension before the path filter
entryCase_ArchiveFirst(found, added, archive) ==
  IF archive THEN "recurse"
  ELSE IF found /\ ~added THEN "add"
  ELSE "skip"

\* The choice that registers a name again
entryCase_AddsAgain(found, added, archive) ==
  IF found THEN "add"
  ELSE IF archive THEN "recurse"
  ELSE "skip"

\* What scanPath does with a file of a directory or an entry of an archive:
\* found is `fields is not None`, added is `name in addedNames` (False for a
\* file of a directory), archive is the result of archivePathRex.search
entryCase(found, added, archive) ==
  IF found /\ ~added THEN "add"
  ELSE IF ~found /\ archive THEN "recurse"
  ELSE "skip"

\* An operator that takes ls works on the LogSet ls = [sources, singleLogFiles,
\* raised] and returns it after the call; raised is the exception that has
\* ended the scan.
RECURSIVE scanArchive(_, _, _, _)

\* The file object scanPath gets for a member of an archive: tar.extractfile
\* returns None for a member that is no file and no link
extractfile(type, name) ==
  IF type = "TAR" THEN (IF isreg(name) THEN ExFileObject ELSE NoFile) ELSE ZipExtFile

\* scanPath called for a member of an archive, res += its result: with no file
\* object no case applies to the path, which is not on the file system, and
\* scanPath returns None
scanEntry(ls, filter, path, file) ==
  IF file = NoFile THEN [ls EXCEPT !.raised = "TypeError"]
  ELSE scanArchive(ls, filter, path, file)


\* The loop of scanPath over the members of an archive, from the i-th on: the
\* LogSet and the LogSource of the archive
RECURSIVE scanMembers(_, _, _, _, _, _)
scanMembers(ls, filter, path, src, i, addedNames) ==
  IF i > Len(MembersOf(path)) THEN [ls |-> ls, src |-> src]
  ELSE LET name == MembersOf(path)[i]
           fullpath == join(path, name)
           found == checkPathFilter(filter, fullpath).matched
           newFile == extractfile(src.type, name)
           case == entryCase(found, name \in addedNames, isArchiveName(fullpath))
       IN IF case = "add"
          THEN scanMembers(ls, filter, path, add(src, name), i + 1, addedNames \cup {name})
          ELSE IF case = "recurse"
          THEN Once({IF ls1.raised # NoError THEN [ls |-> ls1, src |-> src]
                     ELSE scanMembers(ls1, filter, path, src, i + 1, addedNames) :
                       ls1 \in {scanEntry(ls, filter, fullpath, newFile)}})
          ELSE scanMembers(ls, filter, path, src, i + 1, addedNames)

\* scanPath, case 3: the path of an archive file, or the file object of an
\* archive in an archive
scanArchive(ls, filter, path, file) ==
  IF OpenArchive(path, file) = None THEN ls
  ELSE Once({IF scanned.ls.raised = NoError /\ sourceCount(scanned.src) > 0
             THEN [scanned.ls EXCEPT !.sources = Append(@, scanned.src)]
             ELSE scanned.ls :
               scanned \in {scanMembers(ls, filter, path,
                                        LogSourceInit(OpenArchive(path, file), path), 1, {})}})

\* The loop of scanPath over the files of a directory, from Walk[i] on: the
\* LogSet and the LogSource of the directory
RECURSIVE scanFiles(_, _, _, _, _)
scanFiles(ls, filter, path, src, i) ==
  IF i > Len(Walk) THEN [ls |-> ls, src |-> src]
  ELSE LET fullpath == join(path, Walk[i])
           found == checkPathFilter(filter, fullpath).matched
           case == entryCase(found, FALSE, isArchiveName(Walk[i]))
       IN IF case = "add" THEN scanFiles(ls, filter, path, add(src, fullpath), i + 1)
          ELSE IF case = "recurse"
          THEN Once({IF ls1.raised # NoError THEN [ls |-> ls1, src |-> src]
                     ELSE scanFiles(ls1, filter, path, src, i + 1) :
                       ls1 \in {scanArchive(ls, filter, fullpath, NoFile)}})
          ELSE scanFiles(ls, filter, path, src, i + 1)

\* scanPath that opens no file given by the user as an archive
scanPath_NoRootArchives(ls, filter, path) ==
  LET found == checkPathFilter(filter, path).matched
      walked == scanFiles(ls, filter, path, LogSourceInit("DIR", path), 1)
  IN IF isdir(path)
     THEN (IF walked.ls.raised = NoError /\ sourceCount(walked.src) > 0
           THEN [walked.ls EXCEPT !.sources = Append(@, walked.src)]
           ELSE walked.ls)
     ELSE IF isfile(path) /\ found
     THEN [ls EXCEPT !.singleLogFiles = add(@, path)]
     ELSE ls

\* LogSet.scanPath of a path given by the user
scanPath(ls, filter, path) ==
  LET found == checkPathFilter(filter, path).matched
      walked == scanFiles(ls, filter, path, LogSourceInit("DIR", path), 1)
  IN IF isdir(path)
     THEN (IF walked.ls.raised = NoError /\ sourceCount(walked.src) > 0
           THEN [walked.ls EXCEPT !.sources = Append(@, walked.src)]
           ELSE walked.ls)
     ELSE IF isfile(path) /\ found
     THEN [ls EXCEPT !.singleLogFiles = add(@, path)]
     ELSE IF isfile(path) /\ isArchiveName(path)
     THEN scanArchive(ls, filter, path, NoFile)
     ELSE ls

\* The loop of scanPaths over the roots
RECURSIVE scanRoots(_, _, _)
scanRoots(ls, filter, roots) ==
  IF roots = <<>> \/ ls.raised # NoError THEN ls
  ELSE scanRoots(scanPath(ls, filter, Head(roots)), filter, Tail(roots))

\* LogSet.scanPaths of the LogSet with the sources srcs
scanPaths(srcs, filter, roots) ==
  LET ls == scanRoots([sources |-> srcs, singleLogFiles |-> LogSourceInit("LOG", <<>>),
                       raised |-> NoError],
                      filter, roots)
  IN IF ls.raised = NoError /\ sourceCount(ls.singleLogFiles) > 0
     THEN [ls EXCEPT !.sources = Append(@, ls.singleLogFiles)]
     ELSE ls

\* The path filters of the runs
PathFilters ==
  {<<DotStar, ".log">>,
   <<"x", ".log">>,
   <<"D", Slash, "x">>,
   <<"d", Slash, "x", ".log">>,
   <<DotStar, "i", ".tar">>,
   <<DotStar>>}

\* The roots the user gives
Roots ==
  {<<"d">>,
   <<"d", Slash, "x", ".log">>,
   <<"d", Backslash, "x", ".log">>,
   <<"d", Backslash, "t", ".TAR">>,
   <<"d", Slash, "z", ".zip">>,
   <<"e", ".tar">>,
   <<"n">>}

\* The roots of one call of scanPaths
MaxRoots == 2

\* scanPaths has not been called
NoPaths == <<>>

\* LogSet.__init__ has run
InitLogSet ==
  /\ rexPathFilter \in PathFilters
  /\ paths = NoPaths
  /\ sources = <<>>
  /\ singleLogFiles = LogSourceInit("LOG", <<>>)

\* LogSet.__init__ with the default path filter
InitDefaultLogSet == InitLogSet /\ rexPathFilter = <<DotStar, ".log">>

\* EventSet.__init__ has run
InitEventSet ==
  /\ evs = EventSetInit.evs
  /\ sequence = EventSetInit.sequence
  /\ lists = EventSetInit.lists
  /\ curSeqnum = EventSetInit.curSeqnum
  /\ raised = EventSetInit.raised
  /\ executed = EventSetInit.executed

\* EventSearchContext.__init__ has run, no source has been checked, no hook runs
InitContext ==
  /\ phase = "search"
  /\ op = [kind |-> "init", event |-> NoEvent]
  /\ scan = "idle"
  /\ logfile = <<>>
  /\ searchEventTypes = <<>>
  /\ lines = <<>>
  /\ unfinishedEvents = EmptyDict
  /\ linenum = 0
  /\ eventLinesCount = 0
  /\ storedAt = <<>>
  /\ source = 0
  /\ hook = NoEvent
  /\ InitDefaultLogSet

\* A chronological search
InitStore == InitEventSet /\ InitContext /\ chronological = TRUE

\* storeNewEvent adds a found event
AddEvent(name, timestamp) ==
  /\ raised = NoError
  /\ phase = "search"
  /\ Len(evs) < MaxEvents
  /\ SetStore(add_event(Store, FoundEvent(name, timestamp)))
  /\ UNCHANGED <<phase, chronological, scanVars, hook>>

\* A hook calls delete_event on an Event object it holds, stored or not
DeleteEvent(event) ==
  /\ raised = NoError
  /\ event \in Items(sequence) => Len(evs) - Len(sequence) < MaxDeleted
  /\ SetStore(delete_event(Store, event))
  /\ UNCHANGED <<phase, chronological, scanVars, hook>>

\* wrapup sorts the store of a chronological search, once, after the last source
SortEvents(order) ==
  /\ raised = NoError
  /\ phase = "search"
  /\ SetStore(sortEvents(Store, order))
  /\ phase' = "wrapup"
  /\ UNCHANGED <<chronological, scanVars, hook>>

\* The calls on the store, each recorded in op
NextStore ==
  \/ \E name \in EventNames, timestamp \in Timestamps :
        AddEvent(name, timestamp) /\ op' = [kind |-> "add_event", event |-> Len(evs) + 1]
  \/ \E event \in DOMAIN evs :
        DeleteEvent(event) /\ op' = [kind |-> "delete_event", event |-> event]
  \/ \E order \in DictOrders :
        SortEvents(order) /\ op' = [kind |-> "sortEvents", event |-> NoEvent]

SpecStore == InitStore /\ [][NextStore]_vars

\* sortEvents called on the store at any time
SortStore(order) ==
  /\ raised = NoError
  /\ SetStore(sortEvents(Store, order))
  /\ UNCHANGED <<phase, chronological, scanVars, hook>>

\* The three calls in any order, each recorded in op
NextCalls ==
  \/ \E name \in EventNames, timestamp \in Timestamps :
        AddEvent(name, timestamp) /\ op' = [kind |-> "add_event", event |-> Len(evs) + 1]
  \/ \E event \in DOMAIN evs :
        DeleteEvent(event) /\ op' = [kind |-> "delete_event", event |-> event]
  \/ \E order \in DictOrders :
        SortStore(order) /\ op' = [kind |-> "sortEvents", event |-> NoEvent]

SpecCalls == InitStore /\ [][NextCalls]_vars

\* The fields arguments of the iterations a hook consumes step by step
LazyFields == {NoFields, FieldsDict("_name" :> "A")}

\* A hook calls get_events: the generator is created, its body not yet entered
\* (index -1: reversed() is not yet called)
GetEvents(name, fields) ==
  /\ raised = NoError
  /\ op.kind = "init"
  /\ Len(evs) > 0
  /\ op' = [kind |-> "get_events", event |-> NoEvent, name |-> name, fields |-> fields,
            index |-> -1, yielded |-> <<>>, finished |-> FALSE]
  /\ UNCHANGED <<storeVars, phase, chronological, scanVars, hook>>

\* The for loop of the hook asks the generator for the next event
NextOfGenerator ==
  /\ raised = NoError
  /\ op.kind = "get_events"
  /\ ~op.finished
  /\ LET list == IF op.name = None THEN sequence ELSE lists[op.name]
         r == resume(Store, list, IF op.index = -1 THEN Len(list) ELSE op.index,
                     op.name, op.fields, NoBefore)
     IN op' = [op EXCEPT !.event = r.event,
                         !.index = r.index,
                         !.yielded = IF r.event # NoEvent THEN Append(@, r.event) ELSE @,
                         !.finished = r.event = NoEvent]
  /\ UNCHANGED <<storeVars, phase, chronological, scanVars, hook>>

\* The body of the for loop calls delete_event on an Event object
DeleteInLoop(event) ==
  /\ op.kind = "get_events"
  /\ op.event # NoEvent
  /\ DeleteEvent(event)
  /\ UNCHANGED op

NextLazy ==
  \/ \E name \in EventNames, timestamp \in Timestamps :
        op.kind = "init" /\ AddEvent(name, timestamp) /\ UNCHANGED op
  \/ \E name \in EventNames \cup {None}, fields \in LazyFields : GetEvents(name, fields)
  \/ NextOfGenerator
  \/ \E event \in DOMAIN evs : DeleteInLoop(event)

SpecLazy == InitStore /\ [][NextLazy]_vars

\* The same calls, not recorded: the stores on which the hooks run their queries
NextQuery ==
  \/ \E name \in EventNames, timestamp \in Timestamps :
        AddEvent(name, timestamp) /\ UNCHANGED op
  \/ \E event \in DOMAIN evs : DeleteEvent(event) /\ UNCHANGED op
  \/ \E order \in DictOrders : SortEvents(order) /\ UNCHANGED op

SpecQuery == InitStore /\ [][NextQuery]_vars

\* The same stores, for the queries with a limit
SpecLimit == InitStore /\ [][NextQuery]_vars

----------------------------------------------------------------------------
(* The display strings of a search that is not chronological                *)

\* The values the group u of the text pattern captures
UserValues == {"a", "b"}

\* An event as checkLine hands it to storeNewEvent: created, its text and
\* timestamp parsed
ParsedEvent(name, timestamp, value) ==
  setTimestamp(parseText(EventInit(name, EventTypes[name].description, SourcePath),
                         ("u" :> value)),
               timestamp)

InitTemplate == InitEventSet /\ InitContext /\ chronological = FALSE

\* checkLine stores a found event: storeNewEvent generates its display string
StoreNewEvent(name, timestamp, value) ==
  /\ raised = NoError
  /\ Len(evs) < MaxEvents
  /\ SetContext(storeNewEvent(Context, ParsedEvent(name, timestamp, value), 0))
  /\ op' = [kind |-> "storeNewEvent", event |-> Len(evs) + 1]
  /\ UNCHANGED <<phase, chronological, scan, logfile, searchEventTypes, source, hook, logSetVars>>

NextTemplate ==
  \E name \in EventNames, timestamp \in Timestamps, value \in UserValues :
     StoreNewEvent(name, timestamp, value)

SpecTemplate == InitTemplate /\ [][NextTemplate]_vars

----------------------------------------------------------------------------
(* A run of LogSet.search with event types that define the four hooks; the  *)
(* Match hooks call delete_event                                            *)

\* The events stored in a run
MaxStored == 2

\* The pseudo-paths of the log files of the sources, in the order of the search
SourceFiles == << <<"dir", "/", "x", ".log">>, <<"dir", "/", "y", ".txt">> >>

\* os.path.basename of a path of tokens
RECURSIVE basename(_)
basename(path) ==
  IF path = <<>> THEN path
  ELSE IF path[Len(path)] = "/" THEN <<>>
  ELSE Append(basename(SubSeq(path, 1, Len(path) - 1)), path[Len(path)])

\* EventType.searchFilename
searchFilename(evt, path) ==
  \E start \in 0..Len(basename(path)) :
     MatchesAt(evt.rexFilename, basename(path), start, FALSE)

\* ExecutionContext.execute of code that is defined
execute(s, kind, name, event, target, file) ==
  [s EXCEPT !.executed = Append(@, Entry(kind, name, event, target, file))]

\* Event.execute of the stored event `event`: its Match hook calls
\* delete_event(target), or does not touch the store when target is NoEvent
MatchHook(s, event, target) ==
  LET s1 == execute(s, "Match", s.evs[event].eventType, event, target, 0) IN
  IF target = NoEvent THEN s1 ELSE delete_event(s1, target)

\* EventSearchContext.storeNewEvent for an event type with a Match hook
storeNewEventExecute(c, ev, count, target) ==
  Once({IF EventTypes[ev.eventType].immediate \/ ~chronological
        THEN Once({[c1 EXCEPT !.s = IF s2.raised # NoError THEN s2
                                    ELSE storeNewEventDisplay(s2, Len(c1.s.evs))] :
                     s2 \in {MatchHook(c1.s, Len(c1.s.evs), target)}})
        ELSE c1 :
          c1 \in {storeNewEventAdd(c, ev, count)}})

\* finalizeEvents that executes the hooks of the immediate events too
isDeferred_Always(evt) == TRUE

\* The test of the immediate flag in the first loop of finalizeEvents
isDeferred(evt) == ~evt.immediate

\* The first loop of finalizeEvents, from fullseq[i] on; plan gives the event
\* on which the Match hook of each event calls delete_event
RECURSIVE finalizeExecute(_, _, _, _)
finalizeExecute(s, fullseq, i, plan) ==
  IF i > Len(fullseq) \/ s.raised # NoError THEN s
  ELSE LET e == fullseq[i]
           stored == Contains(s, s.sequence, e)
       IN IF stored = "TypeError" THEN [s EXCEPT !.raised = "TypeError"]
          ELSE IF stored = "true" /\ isDeferred(EventTypes[s.evs[e].eventType])
          THEN Once({finalizeExecute(s1, fullseq, i + 1, plan) :
                       s1 \in {MatchHook(s, e, plan[e])}})
          ELSE finalizeExecute(s, fullseq, i + 1, plan)

\* The inner loop of the second loop of finalizeEvents, from list[i] on
RECURSIVE finalizeDisplay(_, _, _)
finalizeDisplay(s, list, i) ==
  IF i > Len(list) \/ s.raised # NoError THEN s
  ELSE Once({finalizeDisplay(s1, list, i + 1) :
               s1 \in {parseDisplay(s, list[i], IF i = 1 THEN NoEvent ELSE list[i - 1])}})

\* finalizeEvents that creates the display strings before it executes the code
finalizeEvents_DisplayFirst(s, plan, order) ==
  Once({finalizeExecute(s2, s2.sequence, 1, plan) :
          s2 \in {Once({finalizeDisplay(s1, s1.lists[order[2]], 1) :
                          s1 \in {finalizeDisplay(s, s.lists[order[1]], 1)}})}})

\* EventSet.finalizeEvents; order is the order in which the dict yields its lists
finalizeEvents(s, plan, order) ==
  Once({Once({finalizeDisplay(s2, s2.lists[order[2]], 1) :
                s2 \in {finalizeDisplay(s1, s1.lists[order[1]], 1)}}) :
          s1 \in {finalizeExecute(s, s.sequence, 1, plan)}})

\* wrapup that executes the Wrapup hooks before it finalizes the events
wrapup_HooksFirst(s, plan, order, typeOrder) ==
  Once({IF chronological /\ s2.raised = NoError
        THEN finalizeEvents(s2, plan, order) ELSE s2 :
          s2 \in {IF chronological
                  THEN sortEvents(execute(execute(s, "Wrapup", typeOrder[1], NoEvent, NoEvent, 0),
                                          "Wrapup", typeOrder[2], NoEvent, NoEvent, 0), order)
                  ELSE execute(execute(s, "Wrapup", typeOrder[1], NoEvent, NoEvent, 0),
                               "Wrapup", typeOrder[2], NoEvent, NoEvent, 0)}})

\* EventSearchContext.wrapup without an output directory; typeOrder is the
\* order in which the dict of the event types yields them
wrapup(s, plan, order, typeOrder) ==
  Once({Once({IF s2.raised # NoError THEN s2
              ELSE execute(execute(s2, "Wrapup", typeOrder[1], NoEvent, NoEvent, 0),
                           "Wrapup", typeOrder[2], NoEvent, NoEvent, 0) :
                s2 \in {IF chronological /\ s1.raised = NoError
                        THEN finalizeEvents(s1, plan, order) ELSE s1}}) :
          s1 \in {IF chronological THEN sortEvents(s, order) ELSE s}})

\* LogSet.search is called
InitRun ==
  /\ InitEventSet
  /\ phase = "new"
  /\ op = [kind |-> "init", event |-> NoEvent]
  /\ chronological \in BOOLEAN
  /\ scan = "idle"
  /\ logfile = <<>>
  /\ searchEventTypes = <<>>
  /\ lines = <<>>
  /\ unfinishedEvents = EmptyDict
  /\ linenum = 0
  /\ eventLinesCount = 0
  /\ storedAt = <<>>
  /\ source = 0
  /\ hook = NoEvent
  /\ InitDefaultLogSet

\* EventSearchContext.__init__: the Init hooks
Construct(typeOrder) ==
  /\ phase = "new"
  /\ phase' = "search"
  /\ executed' = executed \o [i \in 1..2 |-> Entry("Init", typeOrder[i], NoEvent, NoEvent, 0)]
  /\ UNCHANGED <<evs, sequence, lists, curSeqnum, raised, op, chronological, scanVars, hook>>

\* LogSource.search hands the next log file to checkSource: the File hooks of
\* the event types whose pattern matches the name of the file
RunCheckSource(typeOrder) ==
  LET matching == SelectSeq(typeOrder,
                            LAMBDA name : searchFilename(EventTypes[name],
                                                         SourceFiles[source + 1]))
  IN /\ phase = "search"
     /\ raised = NoError
     /\ scan \in {"idle", "closed"}
     /\ source < Len(SourceFiles)
     /\ source' = source + 1
     /\ searchEventTypes' = matching
     /\ executed' = executed \o [i \in 1..Len(matching) |->
                                   Entry("File", matching[i], NoEvent, NoEvent, source + 1)]
     /\ lines' = IF matching # <<>> THEN <<>> ELSE lines
     /\ unfinishedEvents' = IF matching # <<>> THEN EmptyDict ELSE unfinishedEvents
     /\ linenum' = IF matching # <<>> THEN 0 ELSE linenum
     /\ scan' = IF matching # <<>> THEN "reading" ELSE "closed"
     /\ UNCHANGED <<evs, sequence, lists, curSeqnum, raised, phase, op, chronological,
                    logfile, eventLinesCount, storedAt, hook, logSetVars>>

\* A line of the log file is read in which checkLine finds an event of the
\* type name, the only line of the event, and stores it at once
RunCheckLine(name, timestamp, target) ==
  LET path == JoinTokens(SourceFiles[source])
      ev == setTimestamp(parseText(EventInit(name, EventTypes[name].description, path),
                                   GroupDict),
                         timestamp)
      read == [Context EXCEPT !.s.executed = Append(@, Entry("Line", None, NoEvent, NoEvent, source)),
                              !.lines = appendleft(@, <<"a">>),
                              !.linenum = @ + 1]
  IN /\ phase = "search"
     /\ raised = NoError
     /\ scan = "reading"
     /\ name \in Items(searchEventTypes)
     /\ Len(evs) < MaxStored
     /\ SetContext(storeNewEventExecute(read, ev, 1, target))
     /\ op' = [kind |-> "storeNewEvent", event |-> Len(evs) + 1]
     /\ UNCHANGED <<phase, chronological, scan, logfile, searchEventTypes, source, hook, logSetVars>>

\* readline returns nothing more: the log file is closed
CloseSource ==
  /\ phase = "search"
  /\ raised = NoError
  /\ scan = "reading"
  /\ scan' = "closed"
  /\ UNCHANGED <<storeVars, phase, op, chronological, logfile, searchEventTypes, lines,
                 unfinishedEvents, linenum, eventLinesCount, storedAt, source, hook, logSetVars>>

\* The last source has been searched: EventSearchContext.wrapup
Wrapup(plan, order, typeOrder) ==
  /\ phase = "search"
  /\ raised = NoError
  /\ scan \in {"idle", "closed"}
  /\ SetStore(wrapup(Store, plan, order, typeOrder))
  /\ phase' = "end"
  /\ op' = [kind |-> "wrapup", event |-> NoEvent]
  /\ UNCHANGED <<chronological, scanVars, hook>>

NextRun ==
  \/ \E typeOrder \in DictOrders : Construct(typeOrder)
  \/ \E typeOrder \in DictOrders : RunCheckSource(typeOrder)
  \/ \E name \in EventNames, timestamp \in Timestamps,
        target \in {NoEvent} \cup (1..(Len(evs) + 1)) :
        RunCheckLine(name, timestamp, target)
  \/ CloseSource
  \/ \E plan \in [DOMAIN evs -> {NoEvent} \cup DOMAIN evs],
        order \in DictOrders, typeOrder \in DictOrders :
        Wrapup(plan, order, typeOrder)

SpecRun == InitRun /\ [][NextRun]_vars

----------------------------------------------------------------------------
(* A run whose events differ in their user fields *)

\* The named groups the patterns capture on a line: u with one of two values,
\* and k on a line with the timestamp token that has this group
FoundGroups == {("u" :> "a"), ("u" :> "b"), ("k" :> AltStamp) @@ ("u" :> "a")}

InitChanged == InitEventSet /\ InitContext /\ chronological \in BOOLEAN

\* checkLine stores a found event; its Match hook calls delete_event(target)
StoreFound(name, timestamp, groupdict, target) ==
  LET ev == setTimestamp(parseText(EventInit(name, EventTypes[name].description, SourcePath),
                                   groupdict),
                         timestamp)
  IN /\ phase = "search"
     /\ raised = NoError
     /\ Len(evs) < MaxStored
     /\ SetContext(storeNewEventExecute(Context, ev, 0, target))
     /\ op' = [kind |-> "storeNewEvent", event |-> Len(evs) + 1]
     /\ UNCHANGED <<phase, chronological, scan, logfile, searchEventTypes, source, hook, logSetVars>>

NextChanged ==
  \/ \E name \in EventNames, timestamp \in Timestamps, groupdict \in FoundGroups,
        target \in {NoEvent} \cup (1..(Len(evs) + 1)) :
        StoreFound(name, timestamp, groupdict, target)
  \/ \E order \in DictOrders, typeOrder \in DictOrders :
        Wrapup([event \in DOMAIN evs |-> NoEvent], order, typeOrder)

SpecChanged == InitChanged /\ [][NextChanged]_vars

----------------------------------------------------------------------------
(* The scan of the paths *)

InitPaths ==
  /\ InitEventSet
  /\ phase = "new"
  /\ op = [kind |-> "init", event |-> NoEvent]
  /\ chronological = FALSE
  /\ scan = "idle"
  /\ logfile = <<>>
  /\ searchEventTypes = <<>>
  /\ lines = <<>>
  /\ unfinishedEvents = EmptyDict
  /\ linenum = 0
  /\ eventLinesCount = 0
  /\ storedAt = <<>>
  /\ source = 0
  /\ hook = NoEvent
  /\ InitLogSet

\* LogSet.scanPaths with the roots of the user
ScanPaths(roots) ==
  LET ls == scanPaths(sources, rexPathFilter, roots) IN
  /\ paths = NoPaths
  /\ paths' = roots
  /\ sources' = ls.sources
  /\ singleLogFiles' = ls.singleLogFiles
  /\ raised' = ls.raised
  /\ UNCHANGED <<evs, sequence, lists, curSeqnum, executed, phase, op, chronological,
                 scan, logfile, searchEventTypes, lines, unfinishedEvents, linenum,
                 eventLinesCount, storedAt, source, rexPathFilter, hook>>

NextPaths ==
  \E n \in 1..MaxRoots : \E roots \in [1..n -> Roots] : ScanPaths(roots)

SpecPaths == InitPaths /\ [][NextPaths]_vars

----------------------------------------------------------------------------
(* The Match hook of an event and its calls of the field functions          *)

\* The field names and the value the Python code passes
HookNames == SystemFieldNames \cup {"u", "w"}

HookValue == "x"

HookDicts ==
  {("_changed_fields" :> HookValue) @@ ("w" :> HookValue),
   ("_raw" :> HookValue) @@ ("u" :> HookValue)}

\* A search that is not chronological: storeNewEvent executes the Match hooks
InitFields == InitEventSet /\ InitContext /\ chronological = FALSE

\* storeNewEvent stores a found event and calls its execute: the Match hook starts
MatchHookStarts(name, timestamp) ==
  /\ raised = NoError
  /\ hook = NoEvent
  /\ Len(evs) < MaxHooked
  /\ SetStore(add_event(Store, FoundEvent(name, timestamp)))
  /\ hook' = Len(evs) + 1
  /\ op' = [kind |-> "add_event", event |-> Len(evs) + 1]
  /\ UNCHANGED <<phase, chronological, scanVars>>

\* The outcome r of a field function called by the hook on the Event object
\* event: a RuntimeError the Python code does not catch aborts the run
HookCalled(kind, event, r, caught) ==
  /\ raised = NoError
  /\ hook # NoEvent
  /\ evs' = [evs EXCEPT ![event] = r.event]
  /\ raised' = IF r.raised /\ ~caught THEN "RuntimeError" ELSE NoError
  /\ op' = [kind |-> kind, event |-> event]
  /\ UNCHANGED <<sequence, lists, curSeqnum, executed, phase, chronological, scanVars, hook>>

HookSetField(event, name, caught) ==
  HookCalled("set_field", event, set_field(evs[event], name, HookValue), caught)

HookSetFields(event, dictionary) ==
  HookCalled("set_fields", event,
             [raised |-> FALSE, event |-> set_fields(evs[event], dictionary)], TRUE)

HookAddField(event, name, caught) ==
  HookCalled("add_field", event, add_field(evs[event], name, HookValue), caught)

HookAddFields(event, dictionary) ==
  HookCalled("add_fields", event,
             [raised |-> FALSE, event |-> add_fields(evs[event], dictionary)], TRUE)

\* The hook gives the user field w a value that is not a string
HookSetNumber(event) ==
  HookCalled("set_field", event, set_field(evs[event], "w", HookNumber), TRUE)

\* The Match hook returns and storeNewEvent goes on to the display string
MatchHookReturns ==
  /\ raised = NoError
  /\ hook # NoEvent
  /\ SetStore(storeNewEventDisplay(Store, hook))
  /\ hook' = NoEvent
  /\ op' = [kind |-> "parseDisplay", event |-> hook]
  /\ UNCHANGED <<phase, chronological, scanVars>>

NextFields ==
  \/ \E name \in EventNames, timestamp \in Timestamps : MatchHookStarts(name, timestamp)
  \/ \E event \in DOMAIN evs, name \in HookNames, caught \in BOOLEAN :
        HookSetField(event, name, caught)
  \/ \E event \in DOMAIN evs, dictionary \in HookDicts : HookSetFields(event, dictionary)
  \/ \E event \in DOMAIN evs, name \in HookNames, caught \in BOOLEAN :
        HookAddField(event, name, caught)
  \/ \E event \in DOMAIN evs, dictionary \in HookDicts : HookAddFields(event, dictionary)
  \/ \E event \in DOMAIN evs : HookSetNumber(event)
  \/ MatchHookReturns

SpecFields == InitFields /\ [][NextFields]_vars

----------------------------------------------------------------------------
(* LogSource.search on one log file *)

\* A search, chronological or not
InitScan == InitEventSet /\ InitContext /\ chronological \in BOOLEAN

\* EventSearchContext.checkSource on a path both event types accept; order is
\* the order in which the dict of the event types yields them
CheckSource(order) ==
  /\ scan = "idle"
  /\ searchEventTypes' = order
  /\ lines' = <<>>
  /\ unfinishedEvents' = EmptyDict
  /\ linenum' = 0
  /\ scan' = "reading"
  /\ UNCHANGED <<storeVars, phase, op, chronological, logfile, eventLinesCount,
                 storedAt, source, hook, logSetVars>>

\* One turn of the loop of LogSource.search: readline returns the next line of
\* the file, or nothing at its end, and checkLine is consumed to its end
CheckLine(line, order) ==
  /\ raised = NoError
  /\ scan = "reading"
  /\ line # EndOfFile => Len(logfile) < MaxLines
  /\ SetContext(checkLine(Context, line, order))
  /\ logfile' = IF line # EndOfFile THEN Append(logfile, line) ELSE logfile
  /\ scan' = IF line # EndOfFile THEN "reading" ELSE "closed"
  /\ UNCHANGED <<phase, op, chronological, searchEventTypes, source, hook, logSetVars>>

NextScan ==
  \/ \E order \in DictOrders : CheckSource(order)
  \/ \E line \in Lines \cup {EndOfFile}, order \in DictOrders : CheckLine(line, order)

SpecScan == InitScan /\ [][NextScan]_vars

----------------------------------------------------------------------------
(* The scan of a log file at each verbosity *)

\* The values of the verbosity parameter
Verbosities == 0..2

\* The lines of a log file at most
MaxWarnedLines == 4

\* The lines these log files are made of
WarnedLines == {<<"a">>, <<"b">>, <<DupStamp, "a">>, <<DupLater, "b">>}

\* EventSearchContext.__init__ with the verbosity of the run
NewContext(verbosity) ==
  /\ op.kind = "init"
  /\ op' = [kind |-> "EventSearchContext", event |-> NoEvent, verbosity |-> verbosity,
            line |-> EndOfFile, order |-> <<>>]
  /\ UNCHANGED <<storeVars, phase, chronological, scanVars, hook>>

\* One turn of the loop of LogSource.search on this context
WarnedLine(line, order) ==
  /\ raised = NoError
  /\ scan = "reading"
  /\ line # EndOfFile => Len(logfile) < MaxWarnedLines
  /\ SetContext(checkLineVerbosity(Context, line, order, op.verbosity))
  /\ logfile' = IF line # EndOfFile THEN Append(logfile, line) ELSE logfile
  /\ scan' = IF line # EndOfFile THEN "reading" ELSE "closed"
  /\ op' = [op EXCEPT !.kind = "checkLine", !.line = line, !.order = order]
  /\ UNCHANGED <<phase, chronological, searchEventTypes, source, hook, logSetVars>>

NextVerbose ==
  \/ \E verbosity \in Verbosities : NewContext(verbosity)
  \/ \E order \in DictOrders : op.kind # "init" /\ CheckSource(order)
  \/ \E line \in WarnedLines \cup {EndOfFile}, order \in DictOrders : WarnedLine(line, order)

SpecVerbose == InitScan /\ [][NextVerbose]_vars

----------------------------------------------------------------------------
(* checkLine on one line for an event type whose window is one line *)

\* The tokens of a text pattern and of a line at most
MaxPatternLen == 2

MaxLineLen == 3

\* The text patterns: the empty pattern matches with length zero at offset 0
TextPatterns == UNION {[1..n -> {"a", Dot}] : n \in 0..MaxPatternLen}

\* The lines, the empty line among them
TextLines == UNION {[1..n -> {"a", "b"}] : n \in 0..MaxLineLen}

\* The event type A with another text pattern
WithPattern(rexText) == [EventTypes["A"] EXCEPT !.rexText = rexText]

InitMatch ==
  /\ InitEventSet
  /\ phase = "search"
  /\ \E rexText \in TextPatterns, line \in TextLines :
        op = [kind |-> "readline", rexText |-> rexText, line |-> line]
  /\ chronological = FALSE
  /\ scan = "reading"
  /\ logfile = <<>>
  /\ searchEventTypes = <<"A">>
  /\ lines = <<>>
  /\ unfinishedEvents = EmptyDict
  /\ linenum = 0
  /\ eventLinesCount = 0
  /\ storedAt = <<>>
  /\ source = 0
  /\ hook = NoEvent
  /\ InitDefaultLogSet

\* checkLine from the search of the text pattern to the test that lets it
\* create the Event object, for a type with multilineCount = 1 and no staged
\* event: multiline is the line
SearchLine ==
  /\ op.kind = "readline"
  /\ LET evt == WithPattern(op.rexText)
         multiline == op.line
         rexResult == searchText(evt, multiline)
     IN op' = [kind |-> "checkLine", rexText |-> op.rexText, line |-> op.line,
               created |-> rexResult.found /\ endsInLine(multiline, rexResult, op.line)]
  /\ UNCHANGED <<storeVars, phase, chronological, scanVars, hook>>

NextMatch == SearchLine

SpecMatch == InitMatch /\ [][NextMatch]_vars

----------------------------------------------------------------------------
(* LogSource.search on the log files of a source, one after the other *)

\* The lines of a log file at most
MaxFileLines == 2

\* The lines these log files are made of
FileLines == {<<"a">>, <<"b">>, <<"1", "a">>, <<AltStamp, "a">>}

\* checkSource that prepares no structure
checkSource_KeepsLines(c, matching) == c

\* EventSearchContext.checkSource from the test of searchEventTypes on; matching
\* is searchEventTypes, the event types whose pattern matches the file name
checkSource(c, matching) ==
  IF Len(matching) > 0
  THEN [c EXCEPT !.lines = <<>>, !.unfinishedEvents = EmptyDict, !.linenum = 0]
  ELSE c

\* LogSource.search hands the next log file to checkSource; typeOrder is the
\* order in which the dict of the event types yields them
OpenSource(typeOrder) ==
  LET matching == SelectSeq(typeOrder,
                            LAMBDA name : searchFilename(EventTypes[name],
                                                         SourceFiles[source + 1]))
  IN /\ raised = NoError
     /\ scan \in {"idle", "closed"}
     /\ source < Len(SourceFiles)
     /\ source' = source + 1
     /\ searchEventTypes' = matching
     /\ SetContext(checkSource(Context, matching))
     /\ logfile' = <<>>
     /\ scan' = IF Len(matching) > 0 THEN "reading" ELSE "closed"
     /\ UNCHANGED <<phase, op, chronological, hook, logSetVars>>

\* One turn of the loop over the lines of the file
ReadLine(line, order) ==
  /\ raised = NoError
  /\ scan = "reading"
  /\ line # EndOfFile => Len(logfile) < MaxFileLines
  /\ SetContext(checkLine(Context, line, order))
  /\ logfile' = IF line # EndOfFile THEN Append(logfile, line) ELSE logfile
  /\ scan' = IF line # EndOfFile THEN "reading" ELSE "closed"
  /\ UNCHANGED <<phase, op, chronological, searchEventTypes, source, hook, logSetVars>>

NextFiles ==
  \/ \E typeOrder \in DictOrders : OpenSource(typeOrder)
  \/ \E line \in FileLines \cup {EndOfFile}, order \in DictOrders : ReadLine(line, order)

SpecFiles == InitScan /\ [][NextFiles]_vars

----------------------------------------------------------------------------
(* Definitions the properties of the store share *)

\* The position of an item in a list without duplicates
Pos(list, x) == CHOOSE i \in 1..Len(list) : list[i] = x

\* The list without the item x, the others in their order
Without(list, x) == SelectSeq(list, LAMBDA y : y # x)

\* The list from its last item to its first
Reversed(list) == [i \in 1..Len(list) |-> list[Len(list) + 1 - i]]

\* The arguments the hooks pass to get_events; the store treats the two event
\* types alike, so that the queries name one of them
QueryNames == {None, "A"}

QueryFields ==
  {NoFields,
   FieldsDict(("_timestamp" :> IsoFormat(TsMin)) @@ ("u" :> UserValue)),
   FieldsDict(("u" :> "b") @@ ("v" :> UserValue))}

QueryLimits == 0..MaxLimit

\* The list get_events iterates
Iterated(name) == IF name = None THEN sequence ELSE lists[name]

\* The events of the iterated list that satisfy the name and fields criteria
Candidates(name, fields) ==
  {id \in Items(Iterated(name)) : isMatching(Store, id, name, fields, NoBefore)}

----------------------------------------------------------------------------
(* Properties of the store *)

\* C1: the k-th call of add_event assigns the sequence number k-1, whatever
\* delete_event calls came before it (every Event object created so far was
\* added by one call of add_event)
C1_SeqnumIsInsertionCount ==
  op.kind = "add_event" => evs[op.event].seqnum = Len(evs) - 1

\* C1 witness: an event was added after an earlier one had been deleted, and
\* it is not the first
C1_Witness ==
  /\ op.kind = "add_event"
  /\ Len(evs) = MaxEvents
  /\ Len(sequence) < Len(evs)

\* (timestamp, sequence number) of a before that of b, both read before the sort
KeyBefore(a, b) ==
  \/ evs[a].timestamp < evs[b].timestamp
  \/ evs[a].timestamp = evs[b].timestamp /\ evs[a].seqnum < evs[b].seqnum

\* list2 holds the items of list1, ordered by the (timestamp, sequence number)
\* they had before the sort
OrderedByOldKey(list1, list2) ==
  /\ Len(list2) = Len(list1)
  /\ Items(list2) = Items(list1)
  /\ \A i, j \in 1..Len(list2) : i < j => KeyBefore(list2[i], list2[j])

\* C2: sortEvents leaves the flat list and every type-keyed list ordered by
\* (timestamp, previous sequence number), numbers the flat list 0..N-1 by index,
\* and keeps the previous relative order of events with equal timestamps
C2_SortOrdersAndRenumbers ==
  [][op'.kind = "sortEvents" =>
       /\ raised' = NoError
       /\ OrderedByOldKey(sequence, sequence')
       /\ \A k \in EventNames : OrderedByOldKey(lists[k], lists'[k])
       /\ \A i \in 1..Len(sequence') : evs'[sequence'[i]].seqnum = i - 1
       /\ \A a, b \in Items(sequence) :
            (evs[a].timestamp = evs[b].timestamp /\ Pos(sequence, a) < Pos(sequence, b))
              => Pos(sequence', a) < Pos(sequence', b)]_vars

\* C2 witness: a sort of a full store, in which two events have the same
\* timestamp, has moved a later added event before an earlier added one and
\* has renumbered after a deletion
C2_Witness ==
  /\ op.kind = "sortEvents"
  /\ Len(sequence) >= 2
  /\ Len(evs) = MaxEvents
  /\ \E i, j \in 1..Len(sequence) : i < j /\ sequence[i] > sequence[j]
  /\ \E i, j \in 1..Len(sequence) :
       i < j /\ evs[sequence[i]].timestamp = evs[sequence[j]].timestamp

\* C3: get_events(before=A) for a stored event A yields neither A nor any
\* event whose sequence number is equal to or greater than that of A
C3_BeforeEventExcludesLater ==
  \A A \in Items(sequence), name \in QueryNames, fields \in QueryFields,
     limit \in QueryLimits :
    LET yielded == get_events(Store, name, fields, BeforeEvent(A), limit) IN
    \A i \in 1..Len(yielded) :
      yielded[i] # A /\ evs[yielded[i]].seqnum < evs[A].seqnum

\* C3 witness: a stored event that is not the newest has an older event that
\* get_events(before=it) yields
C3_Witness ==
  \E A \in Items(sequence) :
    /\ A # sequence[Len(sequence)]
    /\ get_events(Store, None, NoFields, BeforeEvent(A), 0) # <<>>

\* C4 as claimed: with `before` an event, a candidate that satisfies the name
\* and fields criteria is yielded if and only if its sequence number is smaller
\* than that of the reference; the timestamps play no role
C4_Claimed_SeqnumAlone ==
  \A A \in DOMAIN evs, name \in QueryNames, fields \in QueryFields :
    LET yielded == Items(get_events(Store, name, fields, BeforeEvent(A), 0)) IN
    \A c \in Candidates(name, fields) :
      c \in yielded <=> evs[c].seqnum < evs[A].seqnum

\* C4 amended: such a candidate is yielded if and only if its sequence number
\* is smaller than that of the reference and its timestamp is not later than
\* that of the reference
C4_SeqnumAndTimestamp ==
  \A A \in DOMAIN evs, name \in QueryNames, fields \in QueryFields :
    LET yielded == Items(get_events(Store, name, fields, BeforeEvent(A), 0)) IN
    \A c \in Candidates(name, fields) :
      c \in yielded
        <=> (evs[c].seqnum < evs[A].seqnum /\ evs[c].timestamp <= evs[A].timestamp)

\* C4 witness: a stored reference event has a candidate with a smaller sequence
\* number and a later timestamp, and one with a smaller sequence number and no
\* later timestamp
C4_Witness ==
  \E A, c, d \in Items(sequence) :
    /\ evs[c].seqnum < evs[A].seqnum /\ evs[c].timestamp > evs[A].timestamp
    /\ evs[d].seqnum < evs[A].seqnum /\ evs[d].timestamp <= evs[A].timestamp
    /\ c \notin Items(get_events(Store, None, NoFields, BeforeEvent(A), 0))
    /\ d \in Items(get_events(Store, None, NoFields, BeforeEvent(A), 0))

\* C5 as claimed: with `before` a timestamp, only candidates with a strictly
\* earlier timestamp are yielded
C5_Claimed_StrictlyEarlier ==
  \A t \in Timestamps, name \in QueryNames, fields \in QueryFields,
     limit \in QueryLimits :
    LET yielded == get_events(Store, name, fields, BeforeDatetime(t), limit) IN
    \A i \in 1..Len(yielded) : evs[yielded[i]].timestamp < t

\* C5 amended: with `before` a timestamp, only candidates whose timestamp is
\* earlier than or equal to `before` are yielded, and without a limit every
\* such candidate is yielded, one whose timestamp equals `before` included
C5_EarlierOrEqual ==
  \A t \in Timestamps, name \in QueryNames, fields \in QueryFields :
    /\ \A limit \in QueryLimits :
         LET yielded == get_events(Store, name, fields, BeforeDatetime(t), limit) IN
         \A i \in 1..Len(yielded) : evs[yielded[i]].timestamp <= t
    /\ LET yielded == Items(get_events(Store, name, fields, BeforeDatetime(t), 0)) IN
       \A c \in Candidates(name, fields) : evs[c].timestamp <= t => c \in yielded

\* C5 witness: a query before a timestamp yields a stored event with that
\* timestamp and leaves out a stored event with a later one
C5_Witness ==
  \E t \in Timestamps, c, d \in Items(sequence) :
    /\ evs[c].timestamp = t
    /\ evs[d].timestamp > t
    /\ c \in Items(get_events(Store, None, NoFields, BeforeDatetime(t), 0))
    /\ d \notin Items(get_events(Store, None, NoFields, BeforeDatetime(t), 0))

\* The `before` arguments of the queries: none, a timestamp, an Event object
QueryBefores ==
  {NoBefore} \cup {BeforeDatetime(t) : t \in Timestamps}
             \cup {BeforeEvent(id) : id \in DOMAIN evs}

\* The matching events of the iterated list, from its newest position to its oldest
MatchesNewestFirst(name, fields, before) ==
  SelectSeq(Reversed(Iterated(name)),
            LAMBDA id : isMatching(Store, id, name, fields, before))

\* C6: get_events yields the matching events from the newest position of the
\* iterated list to the oldest, the first `limit` of them when limit > 0 and all
\* of them when limit = 0; get_event returns the first of them, or None
C6_NewestFirstUpToLimit ==
  \A name \in QueryNames, fields \in QueryFields, before \in QueryBefores :
    LET all == MatchesNewestFirst(name, fields, before)
        first == get_event(Store, name, fields, before)
    IN /\ \A limit \in QueryLimits :
            LET yielded == get_events(Store, name, fields, before, limit) IN
            /\ Len(yielded) = IF limit > 0 /\ limit < Len(all) THEN limit ELSE Len(all)
            /\ \A i \in 1..Len(yielded) : yielded[i] = all[i]
       /\ first = IF all # <<>> THEN all[1] ELSE NoEvent

\* C6 witness: a query by name with a limit has more matches than the limit
\* in a store that holds an event of the other type too, and a query with a
\* `before` matches nothing
C6_Witness ==
  /\ Len(MatchesNewestFirst("A", NoFields, NoBefore)) > MaxLimit
  /\ Len(get_events(Store, "A", NoFields, NoBefore, MaxLimit)) = MaxLimit
  /\ lists["B"] # <<>>
  /\ \E A \in Items(sequence) :
       get_event(Store, None, NoFields, BeforeEvent(A)) = NoEvent

\* C7 as claimed: delete_event(e) removes a stored e from the flat list and from
\* its type-keyed list and leaves the rest as it was; on an event that is not
\* in the store it changes nothing; it raises no error in either case
C7_Claimed_DeleteIsSafe ==
  [][op'.kind = "delete_event" =>
       LET e == op'.event IN
       /\ raised' = NoError
       /\ evs' = evs /\ curSeqnum' = curSeqnum
       /\ sequence' = Without(sequence, e)
       /\ lists' = [k \in EventNames |-> Without(lists[k], e)]]_vars

\* C8 as claimed: no call of set_field, set_fields, add_field or add_fields
\* changes what get_field returns for a system field name, and after the call
\* no system field name is a key of the user fields
C8_Claimed_SystemFieldsProtected ==
  [][op'.kind \in {"set_field", "set_fields", "add_field", "add_fields"} =>
       \A name \in SystemFieldNames :
         /\ get_field(evs'[op'.event], name) = get_field(evs[op'.event], name)
         /\ name \notin DOMAIN evs'[op'.event].ufields]_vars

\* The number of lines of a text
NumLines(text) == Cardinality({i \in 1..Len(text) : text[i] = NL}) + 1

\* C9 as claimed: after the sentinel of a file of two lines, the first without a
\* timestamp and the second with one, on which the text pattern of the type with
\* the window of three lines matches from line 1 into line 2, the store holds an
\* event of that type, stored at the sentinel, whose raw text is line 1
\* followed by line 2 and whose line number is 1
C9_Claimed_BothLinesFromLineOne ==
  \A line1, line2 \in Lines :
    LET rexResult == searchText(EventTypes["B"], line1 \o <<NL>> \o line2) IN
    (/\ scan = "closed"
     /\ logfile = <<line1, line2>>
     /\ ~searchTimestamp(EventTypes["B"], line1)
     /\ searchTimestamp(EventTypes["B"], line2)
     /\ rexResult.found
     /\ rexResult.span[1] < Len(line1)
     /\ rexResult.span[2] > Len(line1) + 1)
      => \E event \in Items(lists["B"]) :
           /\ storedAt[event] = 2
           /\ evs[event].sfields["_raw"] = line1 \o <<NL>> \o line2
           /\ evs[event].sfields["_line_number"] = IntStr(1)

\* C10 as claimed: the system field _line_number of a stored event is the
\* number of the first line of its raw text, whose last line is the last line
\* read when the event was stored
C10_Claimed_LineNumberOfFirstLine ==
  \A event \in DOMAIN evs :
    LET first == storedAt[event] - NumLines(evs[event].sfields["_raw"]) + 1 IN
    evs[event].sfields["_line_number"] = IntStr(first)

----------------------------------------------------------------------------
(* Display strings *)

\* The events of type A stored before event x with the value of u that x has
SameUBefore(x) ==
  {y \in Items(lists["A"]) :
     /\ Pos(sequence, y) < Pos(sequence, x)
     /\ evs[y].ufields["u"] = evs[x].ufields["u"]}

\* The last of a set of stored events in the order of the store
LastStored(events) ==
  CHOOSE y \in events : \A z \in events : Pos(sequence, z) <= Pos(sequence, y)

\* What the placeholder {_sequence_number@A:u=u} stands for when the lookup
\* is among the events of the set
LookupText(events) ==
  IF events = {} THEN "NO MATCHING EVENT"
  ELSE evs[LastStored(events)].sfields["_sequence_number"]

\* What the rest of the display string stands for on an event without v and w
RestText ==
  Tab \o "COMPARISON FIELD 'u' NOT FOUND" \o Tab \o "FIELD 'w' NOT FOUND"

\* C12 as stated: the placeholder {_sequence_number@A:u=u} of the display
\* string of a stored event E stands for the sequence number of the most
\* recent event of type A stored before E whose field u equals that of E, and
\* for NO MATCHING EVENT when there is no such event.
C12_Claimed_LookupAmongPreceding ==
  \A x \in Items(sequence) :
     evs[x].sfields["_display_on_match"] = LookupText(SameUBefore(x)) \o RestText

\* C12: the placeholder {_sequence_number@A:u=u} of the display string of a
\* stored event E stands for the sequence number of the most recent event of
\* type A that was stored before E, has a timestamp not later than that of E
\* and whose field u equals that of E, and for NO MATCHING EVENT when there is
\* no such event.
C12_LookupAmongPrecedingNotLater ==
  \A x \in Items(sequence) :
     evs[x].sfields["_display_on_match"]
       = LookupText({y \in SameUBefore(x) : evs[y].timestamp <= evs[x].timestamp})
           \o RestText

\* C12 witness: a display string names the event A found by the lookup, and
\* an event A with the same u and a later timestamp was stored after that one.
C12_Witness ==
  \E x \in Items(sequence) :
     LET found == {y \in SameUBefore(x) : evs[y].timestamp <= evs[x].timestamp} IN
     /\ found # {}
     /\ \E y \in SameUBefore(x) \ found :
          Pos(sequence, LastStored(found)) < Pos(sequence, y)
     /\ evs[x].sfields["_display_on_match"]
          = evs[LastStored(found)].sfields["_sequence_number"] \o RestText

\* The events among which the lookup {_sequence_number@A:u=u} of event x is
FoundBefore(x) ==
  {y \in SameUBefore(x) : evs[y].timestamp <= evs[x].timestamp}

\* C13 as stated: on a stored event E without a field v the placeholder
\* {u@B:u=v} of the display string stands for COMPARISON FIELD 'v' NOT FOUND,
\* the diagnostic that names the missing comparison field.
C13_Claimed_NamesComparisonField ==
  \A x \in Items(sequence) :
     ~has_field(evs[x], "v")
       => evs[x].sfields["_display_on_match"]
            = LookupText(FoundBefore(x)) \o Tab
                \o "COMPARISON FIELD 'v' NOT FOUND" \o Tab \o "FIELD 'w' NOT FOUND"

\* C14 as stated: whatever values the Match hook has given the fields of the
\* event, the display string is generated: replaceFields returns a string and
\* raises no error.
C14_Claimed_ReplaceFieldsNeverRaises ==
  op.kind = "parseDisplay"
    => /\ raised = NoError
       /\ evs[op.event].sfields["_display_on_match"] # None

----------------------------------------------------------------------------
(* Hooks *)

\* The entries of executed of the given kind, as positions
Executions(kind) == {i \in 1..Len(executed) : executed[i].kind = kind}

\* The events whose own Match hook has called delete_event on them
SelfDeleted ==
  {executed[i].event : i \in {j \in Executions("Match") :
                                 executed[j].target = executed[j].event}}

\* C15: an event that its own Match hook has deleted is in neither list of the
\* store, is yielded by no get_events call, has no display string
\* (_display_on_match is None) and parseDisplay has never been called on it,
\* in a search that is not chronological and in a chronological one, for an
\* immediate event type and a deferred one.
C15_SelfDeletedNeverYieldedNorDisplayed ==
  \A event \in SelfDeleted :
     /\ event \notin Items(sequence)
     /\ \A name \in EventNames : event \notin Items(lists[name])
     /\ \A name \in EventNames \cup {None}, before \in QueryBefores :
          event \notin Items(get_events(Store, name, NoFields, before, 0))
     /\ evs[event].sfields["_display_on_match"] = None
     /\ \A i \in Executions("Display") : executed[i].event # event

\* C15 witness: a chronological run has ended in which the Match hook of an
\* immediate event deleted it at its insertion and the Match hook of a
\* deferred event deleted it in finalizeEvents.
C15_Witness ==
  /\ phase = "end"
  /\ raised = NoError
  /\ chronological
  /\ \E event \in SelfDeleted : evs[event].eventType = "A"
  /\ \E event \in SelfDeleted : evs[event].eventType = "B"

\* C15 witness for the search that is not chronological
C15_Witness_NotChronological ==
  /\ ~chronological
  /\ Executions("Display") # {}
  /\ \E event \in SelfDeleted : evs[event].eventType = "A"

\* The entries of executed of the given kind for the event type name and the
\* log file number file (0 for the hooks that have no log file)
HookRuns(kind, name, file) ==
  {i \in Executions(kind) : executed[i].name = name /\ executed[i].file = file}

\* C16: in a run that no exception aborts, the Init hook of each event type
\* has run exactly once from the construction of the search context on, before
\* every File and Match hook; the File hook has run exactly once for each log
\* file handed to checkSource and each event type whose pattern matches its
\* name, never for another pair, and before every line of that file; the
\* Wrapup hook of each event type has run exactly once when wrapup has
\* returned and never before, after every Match hook and every display string.
C16_HooksInLifecycleOrder ==
  /\ \A name \in EventNames :
       Cardinality(HookRuns("Init", name, 0)) = IF phase = "new" THEN 0 ELSE 1
  /\ \A i \in Executions("Init"), j \in Executions("File") \cup Executions("Match") : i < j
  /\ \A name \in EventNames, file \in 1..Len(SourceFiles) :
       Cardinality(HookRuns("File", name, file))
         = IF file <= source /\ searchFilename(EventTypes[name], SourceFiles[file])
           THEN 1 ELSE 0
  /\ \A i \in Executions("File"), j \in Executions("Line") :
       executed[i].file = executed[j].file => i < j
  /\ \A name \in EventNames :
       Cardinality(HookRuns("Wrapup", name, 0))
         = IF phase = "end" /\ raised = NoError THEN 1 ELSE 0
  /\ \A i \in Executions("Wrapup"), j \in Executions("Match") \cup Executions("Display") :
       j < i

\* C16 witness: a chronological run over both log files has ended, with a line
\* read from each, a Match hook executed at an insertion and one in
\* finalizeEvents, and the Wrapup hooks executed.
C16_Witness ==
  /\ phase = "end"
  /\ raised = NoError
  /\ chronological
  /\ \A file \in 1..Len(SourceFiles) : \E i \in Executions("Line") : executed[i].file = file
  /\ \E i \in Executions("Match") : \E j \in Executions("Display") : j < i
  /\ \E i \in Executions("Match") : evs[executed[i].event].eventType = "B"
  /\ Cardinality(Executions("Wrapup")) = 2

\* The executions of the Match hook of an event
MatchRuns(event) == {i \in Executions("Match") : executed[i].event = event}

\* storeNewEvent executes the Match hook of the event
AtInsertion(event) == EventTypes[evs[event].eventType].immediate \/ ~chronological

\* C17: the Match hook of an event never runs twice and never after a hook
\* has deleted the event; while the sources are searched it has run for
\* exactly the stored events whose type is immediate or whose run is not
\* chronological; when a run that no exception aborts has ended it has run
\* once for every event still in the store, an event without an execution was
\* deleted by the hook of another event, and the deferred executions were in
\* the order of the sort.
C17_MatchHookOncePerEvent ==
  /\ \A event \in DOMAIN evs : Cardinality(MatchRuns(event)) <= 1
  /\ \A i \in Executions("Match"), j \in Executions("Match") :
       j < i => executed[j].target # executed[i].event
  /\ phase = "search"
       => \A event \in DOMAIN evs : MatchRuns(event) # {} <=> AtInsertion(event)
  /\ (phase = "end" /\ raised = NoError)
       => /\ \A event \in Items(sequence) : Cardinality(MatchRuns(event)) = 1
          /\ \A event \in DOMAIN evs :
               MatchRuns(event) = {}
                 => \E j \in Executions("Match") :
                      executed[j].target = event /\ executed[j].event # event
          /\ \A i \in Executions("Match"), j \in Executions("Match") :
               (/\ i < j
                /\ ~AtInsertion(executed[i].event)
                /\ ~AtInsertion(executed[j].event))
                 => evs[executed[i].event].seqnum < evs[executed[j].event].seqnum

\* C17 witness: a chronological run has ended in which the sort put a
\* deferred event before one stored earlier, its Match hook deleted that one,
\* and finalizeEvents skipped the deleted event.
C17_Witness ==
  /\ phase = "end"
  /\ raised = NoError
  /\ chronological
  /\ \E event \in DOMAIN evs, later \in DOMAIN evs :
       /\ event < later
       /\ ~AtInsertion(event) /\ ~AtInsertion(later)
       /\ MatchRuns(event) = {}
       /\ \E i \in MatchRuns(later) : executed[i].target = event

----------------------------------------------------------------------------
(* The scan of the paths *)

\* The registered files of the retained sources: source number, file number
Registered ==
  UNION {{<<k, j>> : j \in DOMAIN sources[k].logs} : k \in DOMAIN sources}

\* The pseudo-path of a registered file
PseudoPathOf(reg) == sources[reg[1]].logs[reg[2]].pseudoPath

\* A match of the pattern begins at the first token of the text
MatchFromStart(pattern, text) ==
  \E k \in 0..Len(text) : Matches(pattern, SubSeq(text, 1, k))

\* C18: when scanPaths has returned, a file given as a root is registered if
\* and only if a match of the path filter begins at the first token of its
\* path with every backslash replaced by a slash; a match of the filter begins
\* at the first token of the pseudo-path of every registered file.
C18_MatchAnchoredAtStart ==
  /\ raised = NoError =>
       \A i \in 1..Len(paths) :
          isfile(paths[i])
            => ((\E j \in 1..Len(singleLogFiles.logs) : singleLogFiles.logs[j].path = paths[i])
                  <=> MatchFromStart(rexPathFilter, ForwardSlashes(paths[i])))
  /\ \A reg \in Registered : MatchFromStart(rexPathFilter, PseudoPathOf(reg))

\* C18 witness: the filter d/x.log has registered the file given as d\x.log.
C18_Witness ==
  /\ rexPathFilter = <<"d", Slash, "x", ".log">>
  /\ \E i \in 1..Len(paths) :
       /\ paths[i] = <<"d", Backslash, "x", ".log">>
       /\ \E reg \in Registered :
            /\ sources[reg[1]].logs[reg[2]].path = paths[i]
            /\ PseudoPathOf(reg) = <<"d", Slash, "x", ".log">>

\* C19 as stated: the path filter matches the whole pseudo-path of every
\* registered file, from its first token to its last.
C19_Claimed_MatchesWholePseudoPath ==
  \A reg \in Registered : Matches(rexPathFilter, PseudoPathOf(reg))

\* C20 as stated: after scanPaths no two registered files of the retained
\* sources have the same pseudo-path.
C20_Claimed_PseudoPathsUnique ==
  \A reg \in Registered, other \in Registered :
     reg # other => PseudoPathOf(reg) # PseudoPathOf(other)

\* The pseudo-paths of the zip archive d/z.zip, of its log file, of the tar
\* archive embedded in it and of the log file of that tar archive
ZipPath == <<"d", Slash, "z", ".zip">>

ZipLog == ZipPath \o <<Slash, "x", ".log">>

ZipTar == ZipPath \o <<Slash, "i", ".tar">>

ZipTarLog == ZipTar \o <<Slash, "p", ".log">>

\* scanPaths has scanned the zip archive, as a root or in the directory d
ZipScanned ==
  \E i \in 1..Len(paths) : ForwardSlashes(paths[i]) \in {<<"d">>, ZipPath}

\* C21 as stated: when the zip archive d/z.zip is scanned, its log file
\* x.log and the log file p.log of its embedded tar archive i.tar matching the
\* path filter and the name of the tar archive not matching it, both files are
\* registered, the inner one under the pseudo-path d/z.zip/i.tar/p.log.
C21_Claimed_TarInZipRegistered ==
  (/\ ZipScanned
   /\ ~rexMatch(rexPathFilter, ZipPath)
   /\ rexMatch(rexPathFilter, ZipLog)
   /\ ~rexMatch(rexPathFilter, ZipTar)
   /\ rexMatch(rexPathFilter, ZipTarLog))
  => /\ \E reg \in Registered : PseudoPathOf(reg) = ZipLog
     /\ \E reg \in Registered : PseudoPathOf(reg) = ZipTarLog

----------------------------------------------------------------------------
(* The lines of an event *)

\* The lines first..last of a file, joined by line breaks, oldest first
RECURSIVE JoinLines(_, _, _)
JoinLines(file, first, last) ==
  IF first > last THEN <<>>
  ELSE IF first = last THEN file[first]
  ELSE file[first] \o <<NL>> \o JoinLines(file, first + 1, last)

\* parseTimestamp of an event of the type finds a timestamp on the line: the
\* timestamp pattern matches and no named group of it is a user field of the
\* text pattern
Stamps(evt, line) ==
  searchTimestamp(evt, line) /\ "u" \notin DOMAIN UserGroups(line[1])

\* The number of the newest line read on which parseTimestamp finds a
\* timestamp for the type, 0 when there is none
StampLine(evt) ==
  LET stamped == {i \in 1..Len(logfile) : Stamps(evt, logfile[i])} IN
  IF stamped = {} THEN 0 ELSE CHOOSE i \in stamped : \A j \in stamped : j <= i

\* C22 as stated: a checkLine call that finalizes a staged event, on a line its
\* timestamp pattern matches or at the end of the file, stores it with the raw
\* text made of the lines from the one its timestamp was found on to the last
\* line read before the call, whatever was matched or staged for the other
\* event type in between.
C22_Claimed_StagedRawFromStampLine ==
  [][\A name \in DOMAIN unfinishedEvents :
       (/\ scan = "reading"
        /\ \/ scan' = "closed"
           \/ /\ logfile' # logfile
              /\ searchTimestamp(EventTypes[name], logfile'[Len(logfile')]))
         => \E event \in (Len(evs) + 1)..Len(evs') :
              /\ evs'[event].eventType = name
              /\ storedAt'[event] = Len(logfile)
              /\ evs'[event].sfields["_raw"] =
                   JoinLines(logfile, StampLine(EventTypes[name]), Len(logfile))]_vars

\* The checkLine call of the step finalizes the staged event of the type: the
\* line read is a boundary for it, or the file is at its end
Finalized(name) ==
  /\ name \in DOMAIN unfinishedEvents
  /\ \/ scan = "reading" /\ scan' = "closed"
     \/ /\ logfile' # logfile
        /\ searchTimestamp(EventTypes[name], logfile'[Len(logfile')])

\* The checkLine call of the step accepts a text match of the type: no event
\* of the type is staged after the first loop and the text pattern matches the
\* window with its end in the line read
Accepted(name) ==
  LET evt == EventTypes[name]
      line == logfile'[Len(logfile')]
      multiline == IF evt.multilineCount = 1 THEN line
                   ELSE getMultiline(lines', evt.multilineCount)
      rexResult == searchText(evt, multiline)
  IN /\ logfile' # logfile
     /\ name \in Items(searchEventTypes)
     /\ name \in DOMAIN unfinishedEvents => Finalized(name)
     /\ rexResult.found
     /\ Len(multiline) - rexResult.span[2] < Len(line)

\* The events of the type the step inserts into the store
Inserted(name) ==
  {event \in (Len(evs) + 1)..Len(evs') : evs'[event].eventType = name}

\* 1 for TRUE, 0 for FALSE
Count(condition) == IF condition THEN 1 ELSE 0

\* C23: in every checkLine call and for every event type, the events of the
\* type inserted plus the one staged after the call are the one staged before
\* it plus the match accepted in it; a finalized staged event is inserted with
\* its fields, in the first loop; an accepted match that is not staged is
\* inserted in the call; once the sentinel call is consumed no event is staged.
C23_EveryMatchInsertedOnce ==
  /\ [](scan = "closed" => DOMAIN unfinishedEvents = {})
  /\ [][\A name \in EventNames :
          /\ Cardinality(Inserted(name)) + Count(name \in DOMAIN unfinishedEvents')
               = Count(name \in DOMAIN unfinishedEvents) + Count(Accepted(name))
          /\ Finalized(name) =>
               \E event \in Inserted(name) :
                  /\ storedAt'[event] = Len(logfile)
                  /\ evs'[event].ufields = unfinishedEvents[name].ufields
                  /\ evs'[event].timestamp = unfinishedEvents[name].timestamp
          /\ (Accepted(name) /\ name \notin DOMAIN unfinishedEvents') =>
               \E event \in Inserted(name) : storedAt'[event] = Len(logfile')]_vars

\* C23 witness: the sentinel call of a file is consumed and the store holds an
\* event stored in the call that accepted its match and an event that was
\* staged and stored at the sentinel, after the last line.
C23_Witness ==
  /\ scan = "closed"
  /\ DOMAIN unfinishedEvents = {}
  /\ Len(logfile) = 2
  /\ \E event \in DOMAIN evs : storedAt[event] = 1 /\ evs[event].timestamp = TsMin
  /\ \E event \in DOMAIN evs :
       /\ storedAt[event] = 2
       /\ evs[event].timestamp # TsMin
       /\ evs[event].sfields["_raw"] = logfile[2]

\* The candidate string of the type after the step: the last lines of the
\* file, as many as the window of the type has, joined by line breaks
Window(evt) ==
  LET first == IF Len(logfile') > evt.multilineCount
               THEN Len(logfile') - evt.multilineCount + 1 ELSE 1
  IN JoinLines(logfile', first, Len(logfile'))

\* The leftmost match of the text pattern in the candidate string ends in the
\* newest line: its last token comes after the older lines and their line breaks
EndsInNewestLine(evt) ==
  LET rexResult == searchText(evt, Window(evt))
      older == Len(Window(evt)) - Len(logfile'[Len(logfile')])
  IN rexResult.found /\ rexResult.span[2] > older

\* The events of the type the step stores in its second loop, at the line read
StoredAtOnce(name) ==
  {event \in Inserted(name) : logfile' # logfile /\ storedAt'[event] = Len(logfile')}

\* The step stages a new event of the type
NewlyStaged(name) ==
  /\ name \in DOMAIN unfinishedEvents'
  /\ name \in DOMAIN unfinishedEvents => Finalized(name)

\* C24: a checkLine call creates, stored at once or staged, at most one event
\* of an event type, and creates it only if the leftmost match of the text
\* pattern in the candidate string ends in the line of the call; a match that
\* ends in an earlier line of the window creates no event.
C24_CreatedOnlyIfMatchEndsInLine ==
  [][\A name \in EventNames :
       /\ Cardinality(StoredAtOnce(name)) + Count(NewlyStaged(name)) <= 1
       /\ (StoredAtOnce(name) # {} \/ NewlyStaged(name))
            => (logfile' # logfile /\ EndsInNewestLine(EventTypes[name]))]_vars

\* C24 witness: the text pattern of B matched from line 1 into line 2 and the
\* event was created in the call of line 2; in the call of line 3 the match
\* is in the window still, ends in line 2 and creates no event.
C24_Witness ==
  LET rexResult == searchText(EventTypes["B"], JoinLines(logfile, 1, Len(logfile))) IN
  /\ scan = "reading"
  /\ Len(logfile) = 3
  /\ logfile[3] # <<>>
  /\ rexResult.found
  /\ rexResult.span[2] = Len(logfile[1]) + 1 + Len(logfile[2])
  /\ "B" \notin DOMAIN unfinishedEvents
  /\ \E event \in DOMAIN evs : evs[event].eventType = "B" /\ storedAt[event] = 2
  /\ \A event \in DOMAIN evs : evs[event].eventType = "B" => storedAt[event] # 3

----------------------------------------------------------------------------
(* Event.parseTimestamp from the named groups of the timestamp match to the  *)
(* datetime.  A captured text is a sequence of characters.                   *)

\* The value of a named group that did not take part in the match (None)
NoGroup == <<None>>

\* int() of a digit
DigitValue(char) == CHOOSE n \in 0..9 : IntStr(n) = char

\* int() of a text of digits
RECURSIVE IntOf(_)
IntOf(text) ==
  IF text = <<>> THEN 0
  ELSE 10 * IntOf(SubSeq(text, 1, Len(text) - 1)) + DigitValue(text[Len(text)])

\* m[0:3].upper() of the names of the months in the inputs
Upper3(text) ==
  [i \in 1..3 |-> IF text[i] = "e" THEN "E" ELSE IF text[i] = "c" THEN "C" ELSE text[i]]

\* The dict months
Months ==
  (<<"J", "A", "N">> :> 1) @@ (<<"F", "E", "B">> :> 2) @@ (<<"M", "A", "R">> :> 3)
  @@ (<<"A", "P", "R">> :> 4) @@ (<<"M", "A", "Y">> :> 5) @@ (<<"J", "U", "N">> :> 6)
  @@ (<<"J", "U", "L">> :> 7) @@ (<<"A", "U", "G">> :> 8) @@ (<<"S", "E", "P">> :> 9)
  @@ (<<"O", "C", "T">> :> 10) @@ (<<"N", "O", "V">> :> 11) @@ (<<"D", "E", "C">> :> 12)

\* The dict names: the letters of the timestamp fields whose group, named by
\* an underscore and the letter, captured a text that is not empty
TimestampNames(tsfields) ==
  {letter \in {"Y", "M", "D", "h", "m", "s"} :
     /\ ("_" \o letter) \in DOMAIN tsfields
     /\ tsfields["_" \o letter] # NoGroup
     /\ Len(tsfields["_" \o letter]) > 0}

\* datetime.datetime(...) raises ValueError
ValidDatetime(t) ==
  /\ t.year \in 1..9999
  /\ t.month \in 1..12
  /\ t.day \in 1..31
  /\ t.hour \in 0..23
  /\ t.minute \in 0..59
  /\ t.second \in 0..59

\* The datetime parseTimestamp hands to setTimestamp for the named groups
\* tsfields and the year of sourceTime, or the exception it raises before
ParsedDatetime(tsfields, sourceYear) ==
  LET names == TimestampNames(tsfields)
      captured == IntOf(tsfields["_Y"])
      year == IF "Y" \in names
              THEN (IF captured < 100 THEN captured + 2000 ELSE captured)
              ELSE sourceYear
      m == tsfields["_M"]
      month == IF Len(m) <= 2 THEN IntOf(m) ELSE Months[Upper3(m)]
      second == IF "s" \in names THEN IntOf(tsfields["_s"]) ELSE 0
      t == [year |-> year, month |-> month, day |-> IntOf(tsfields["_D"]),
            hour |-> IntOf(tsfields["_h"]), minute |-> IntOf(tsfields["_m"]),
            second |-> second]
  IN IF Cardinality(names) < 4 THEN [raised |-> "AssertionError"]
     ELSE IF {"M", "D", "h", "m"} \ names # {} THEN [raised |-> "KeyError"]
     ELSE IF ~ValidDatetime(t) THEN [raised |-> "ValueError"]
     ELSE [raised |-> NoError, timestamp |-> t]

\* The texts the year group, the month group and the second group capture
YearTexts ==
  {NoGroup, <<>>, <<"1", "6">>, <<"9", "9">>, <<"0", "0", "1", "6">>,
   <<"0", "1", "0", "0">>, <<"1", "9", "9", "9">>, <<"2", "0", "1", "6">>}

MonthTexts == {<<"1", "2">>, <<"D", "e", "c">>}

SecondTexts == {NoGroup, <<"0", "5">>, <<"5", "9">>}

HourTexts == {NoGroup, <<"2", "3">>}

\* The years of the modification time of the log file
SourceYears == {2015, 2024}

\* The named groups of a timestamp match
TimestampFields(year, month, hour, second) ==
  ("_Y" :> year) @@ ("_M" :> month) @@ ("_D" :> <<"3", "1">>) @@ ("_h" :> hour)
  @@ ("_m" :> <<"5", "9">>) @@ ("_s" :> second)

\* The timestamp pattern has matched a line of a log file
InitStamp ==
  /\ InitEventSet
  /\ phase = "new"
  /\ \E year \in YearTexts, month \in MonthTexts, hour \in HourTexts,
        second \in SecondTexts, sourceYear \in SourceYears :
        op = [kind |-> "searchTimestamp",
              tsfields |-> TimestampFields(year, month, hour, second),
              sourceYear |-> sourceYear]
  /\ chronological = FALSE
  /\ scan = "idle"
  /\ logfile = <<>>
  /\ searchEventTypes = <<>>
  /\ lines = <<>>
  /\ unfinishedEvents = EmptyDict
  /\ linenum = 0
  /\ eventLinesCount = 0
  /\ storedAt = <<>>
  /\ source = 0
  /\ hook = NoEvent
  /\ InitDefaultLogSet

\* parseTimestamp up to its call of setTimestamp
ParseTimestamp ==
  /\ op.kind = "searchTimestamp"
  /\ op' = [kind |-> "parseTimestamp", tsfields |-> op.tsfields,
            sourceYear |-> op.sourceYear,
            parsed |-> ParsedDatetime(op.tsfields, op.sourceYear)]
  /\ UNCHANGED <<storeVars, phase, chronological, scanVars, hook>>

NextStamp == ParseTimestamp

SpecStamp == InitStamp /\ [][NextStamp]_vars

\* C25 as stated: the year of the timestamp is the year of the modification
\* time of the file when the year group captured nothing, the captured value
\* plus 2000 when it captured two digits, the captured value when it captured
\* four digits; the second is 0 when the second group captured nothing.
C25_Claimed_YearByDigits ==
  (op.kind = "parseTimestamp" /\ op.parsed.raised = NoError) =>
    LET year == op.tsfields["_Y"]
        second == op.tsfields["_s"]
        t == op.parsed.timestamp
    IN /\ (year = NoGroup \/ year = <<>>) => t.year = op.sourceYear
       /\ (year # NoGroup /\ Len(year) = 2) => t.year = IntOf(year) + 2000
       /\ (year # NoGroup /\ Len(year) = 4) => t.year = IntOf(year)
       /\ second = NoGroup => t.second = 0

----------------------------------------------------------------------------
(* The user fields of the timestamp pattern *)

\* The numbers of the lines read on which the timestamp pattern of the type
\* of the event matches the timestamp of the event
LinesOfTimestamp(e) ==
  {i \in 1..Len(logfile) :
     /\ searchTimestamp(EventTypes[e.eventType], logfile[i])
     /\ StampValue(logfile[i][1]) = e.timestamp}

\* C26 as stated: a stored event with a timestamp taken from a line has, for
\* one of the lines its timestamp can come from, every named group of the
\* timestamp match as a user field with the captured value, whatever the text
\* pattern captured.
C26_Claimed_TimestampGroupsAreFields ==
  \A event \in DOMAIN evs :
    evs[event].timestamp # TsMin =>
      \E i \in LinesOfTimestamp(evs[event]) :
        \A k \in DOMAIN UserGroups(logfile[i][1]) :
          /\ k \in DOMAIN evs[event].ufields
          /\ evs[event].ufields[k] = UserGroups(logfile[i][1])[k]

----------------------------------------------------------------------------
(* The virtual field _core *)

\* The first line of a text
RECURSIVE FirstLine(_)
FirstLine(text) ==
  IF text = <<>> \/ Head(text) = NL THEN <<>>
  ELSE <<Head(text)>> \o FirstLine(Tail(text))

\* C27 as stated: a stored event with a timestamp has its timestamp span in
\* the first line of its raw text, over the text its timestamp pattern matched,
\* and its field _core is the raw text without that text; the field _core of a
\* stored event without a timestamp is its raw text.
C27_Claimed_CoreIsRawWithoutTimestamp ==
  \A event \in DOMAIN evs :
    LET e == evs[event]
        raw == e.sfields["_raw"]
    IN IF e.timestamp = TsMin THEN get_field(e, "_core") = raw
       ELSE /\ e.timestampSpan[2] <= Len(FirstLine(raw))
            /\ searchTimestamp(EventTypes[e.eventType], raw)
            /\ StampValue(raw[1]) = e.timestamp
            /\ get_field(e, "_core") = Tail(raw)

----------------------------------------------------------------------------
(* The display strings and the Match hooks *)

\* The entries the step appends to executed
Appended == (Len(executed) + 1)..Len(executed')

\* C28: parseDisplay is called on an event only after the Match hook of that
\* event has run, at the insertion and in finalizeEvents; in the wrapup of a
\* chronological run every Match hook that finalizeEvents executes has run
\* before the first parseDisplay of finalizeEvents.
C28_DisplayAfterMatchHook ==
  /\ [](\A i \in Executions("Display") : \E j \in MatchRuns(executed[i].event) : j < i)
  /\ [][(chronological /\ phase = "search" /\ phase' = "end")
          => \A i \in Appended, j \in Appended :
               (executed'[i].kind = "Match" /\ executed'[j].kind = "Display") => i < j]_vars

\* C28 witness: a chronological run has ended in which finalizeEvents executed
\* the Match hooks of two deferred events and created the display strings of
\* both after the second hook.
C28_Witness ==
  /\ phase = "end"
  /\ raised = NoError
  /\ chronological
  /\ \E event \in DOMAIN evs, later \in DOMAIN evs :
       /\ event # later
       /\ ~AtInsertion(event) /\ ~AtInsertion(later)
       /\ \E i \in MatchRuns(event), j \in MatchRuns(later), k \in Executions("Display") :
            i < j /\ j < k /\ executed[k].event = event
       /\ \E k \in Executions("Display") : executed[k].event = later

----------------------------------------------------------------------------
(* The changed fields *)

\* The item before the event in the list, NoEvent for the first item
Predecessor(list, event) ==
  IF Pos(list, event) = 1 THEN NoEvent ELSE list[Pos(list, event) - 1]

\* The user fields of e that pev has not or has with another value
Differing(e, pev) ==
  {k \in DOMAIN e.ufields : k \notin DOMAIN pev.ufields \/ pev.ufields[k] # e.ufields[k]}

\* _changed_fields of the event in the store names the user fields in which it
\* differs from the event before it in the list, if there is one
ChangedFromPredecessor(store, list, event) ==
  LET pev == Predecessor(list, event)
      keys == Differing(store[event], store[pev])
  IN pev # NoEvent =>
       store[event].sfields["_changed_fields"] = IF keys = {} THEN None ELSE JoinKeys(keys, 1)

\* C29: every parseDisplay call sets _changed_fields of its event to the user
\* fields of the event whose value the event before it in the list of its type
\* has not, or has with another value, and to no field that only this
\* predecessor has; when a chronological run has ended the lists are sorted
\* and _changed_fields of every event, of an immediate type or not, is
\* relative to the event before it in the sorted list.
C29_ChangedFieldsFromPredecessor ==
  /\ [][\A i \in Appended :
          executed'[i].kind = "Display" =>
            /\ executed'[i].event \in Items(lists'[executed'[i].name])
            /\ ChangedFromPredecessor(evs', lists'[executed'[i].name], executed'[i].event)]_vars
  /\ []((phase = "end" /\ chronological /\ raised = NoError) =>
          \A name \in EventNames : \A event \in Items(lists[name]) :
             /\ Predecessor(lists[name], event) # NoEvent
                  => Lt(Store, Predecessor(lists[name], event), event)
             /\ ChangedFromPredecessor(evs, lists[name], event))

\* C29 witness: a chronological run has ended with two events of the
\* immediate type B, the one stored first with the fields k and u, the one
\* stored second with an earlier timestamp and another u; the sort has put
\* the second before the first, whose _changed_fields now names k and u.
C29_Witness ==
  /\ phase = "end"
  /\ raised = NoError
  /\ chronological
  /\ Len(evs) = 2
  /\ lists["B"] = <<2, 1>>
  /\ DOMAIN evs[1].ufields = {"k", "u"}
  /\ DOMAIN evs[2].ufields = {"u"}
  /\ evs[1].sfields["_changed_fields"] = "k,u"
  /\ evs[2].sfields["_changed_fields"] = None

----------------------------------------------------------------------------
(* The display of the events *)

\* The events LogSource.search or LogSet.search hands to display in the state:
\* the event checkLine has yielded in a run that is not chronological, the
\* events of the sorted sequence when a chronological run has ended
Shown ==
  IF raised # NoError THEN {}
  ELSE IF ~chronological
  THEN (IF phase = "search" /\ op.kind = "storeNewEvent" THEN {op.event} ELSE {})
  ELSE (IF phase = "end" THEN Items(sequence) ELSE {})

\* The event is in the list of its type behind an event from which it differs
\* in no user field
Repeats(event) ==
  LET list == lists[evs[event].eventType] IN
  /\ event \in Items(list)
  /\ Predecessor(list, event) # NoEvent
  /\ Differing(evs[event], evs[Predecessor(list, event)]) = {}

\* C30 as stated: display of an event of a type with displayIfChanged that has
\* a display string prints nothing only if the event repeats the event before
\* it in the list of its type; it prints the event in every other case.
C30_Claimed_SuppressedOnlyIfRepeated ==
  \A event \in Shown :
    (/\ EventTypes[evs[event].eventType].displayIfChanged
     /\ evs[event].sfields["_display_on_match"] \notin {None, ""})
      => (display(evs[event], FALSE) = NoOutput <=> Repeats(event))

----------------------------------------------------------------------------
(* The path filter and the archives *)

\* The archives scanPath has opened and kept as sources
Archives == {k \in DOMAIN sources : sources[k].type \in {"TAR", "ZIP"}}

\* C31: a file or an entry of an archive that is registered as a log file is
\* the path of no archive source, also when its name has the extension of an
\* archive; the path of every archive source has the extension of an archive
\* and does not match the path filter.
C31_FilterBeforeArchive ==
  /\ \A reg \in Registered, k \in Archives :
       ForwardSlashes(sources[k].path) # PseudoPathOf(reg)
  /\ \A k \in Archives :
       /\ isArchiveName(sources[k].path)
       /\ ~checkPathFilter(rexPathFilter, sources[k].path).matched

\* C31 witness: with the filter .*i\.tar the scan of the directory d has opened
\* the archive d/t.tar, whose name does not match, and has registered its entry
\* i.tar as a log file; no source has the path of the entry.
C31_Witness ==
  /\ paths = << <<"d">> >>
  /\ \E reg \in Registered :
       /\ sources[reg[1]].type = "TAR"
       /\ PseudoPathOf(reg) = <<"d", Slash, "t", ".tar", Slash, "i", ".tar">>
  /\ \A k \in Archives : Len(sources[k].path) = 4

\* C31 witness in a directory: with the filter .* the files t.tar and z.zip of
\* the directory d are registered as log files and no archive is opened.
C31_Witness_Directory ==
  /\ paths = << <<"d">> >>
  /\ Archives = {}
  /\ \E reg \in Registered :
       sources[reg[1]].type = "DIR" /\ PseudoPathOf(reg) = <<"d", Slash, "t", ".tar">>

----------------------------------------------------------------------------
(* A file given as a root *)

\* scanPaths was called with one root, a file, and has returned
FileRoot == Len(paths) = 1 /\ isfile(paths[1]) /\ raised = NoError

\* The path filter matches the root
RootMatches == checkPathFilter(rexPathFilter, paths[1]).matched

\* The one source is the source of the loose files, with the root as its file
RootIsLooseFile ==
  /\ Len(sources) = 1
  /\ sources[1].type = "LOG"
  /\ Len(sources[1].logs) = 1
  /\ sources[1].logs[1].path = paths[1]

\* The root is an archive that can be opened and has an entry the filter matches
RootArchiveHasLogs ==
  /\ isArchiveName(paths[1])
  /\ OpenArchive(paths[1], NoFile) # None
  /\ \E i \in 1..Len(MembersOf(paths[1])) :
        checkPathFilter(rexPathFilter, join(paths[1], MembersOf(paths[1])[i])).matched

\* C32 as stated: a file given as a root is the one file of the source of the
\* loose files if the path filter matches it, and leaves no source at all if
\* the filter does not match it, whatever its extension.
C32_Claimed_NoArchiveForFileRoot ==
  FileRoot => IF RootMatches THEN RootIsLooseFile ELSE sources = <<>>

\* C32 amended: a file given as a root is the one file of the source of the
\* loose files if the path filter matches it, whatever its extension; if the
\* filter does not match it and its name has no archive extension it leaves no
\* source; if it has an archive extension it is opened as an archive, every
\* source is an archive whose path begins with the root, and the root is the
\* path of a source when one of its entries matches the filter.
C32_FileRootIsLogOrArchive ==
  FileRoot =>
    IF RootMatches THEN RootIsLooseFile
    ELSE IF ~isArchiveName(paths[1]) THEN sources = <<>>
    ELSE /\ \A k \in DOMAIN sources :
              /\ k \in Archives
              /\ SubSeq(sources[k].path, 1, Len(paths[1])) = paths[1]
         /\ RootArchiveHasLogs => \E k \in Archives : sources[k].path = paths[1]

\* C32 witness: the zip archive d/z.zip was given as the root with the filter
\* .*\.log, which does not match it, and is a source of the type ZIP with its
\* entry x.log.
C32_Witness ==
  /\ FileRoot
  /\ ~RootMatches
  /\ paths[1] = <<"d", Slash, "z", ".zip">>
  /\ \E k \in Archives :
       /\ sources[k].type = "ZIP"
       /\ sources[k].path = paths[1]
       /\ Len(sources[k].logs) = 1

\* C32 witness of the other case: the same root with the filter .*, which
\* matches it, is a loose log file and no archive.
C32_Witness_Matching ==
  /\ FileRoot
  /\ RootMatches
  /\ paths[1] = <<"d", Slash, "z", ".zip">>
  /\ RootIsLooseFile

----------------------------------------------------------------------------
(* The entries of an archive with the same name *)

\* The files of the source k registered under the name
RegisteredAs(k, name) == {j \in DOMAIN sources[k].logs : sources[k].logs[j].path = name}

\* C33: in a source that is an archive, every entry name the path filter
\* matches is registered exactly once, however often the archive lists it, and
\* no source has the path of a registered entry: an entry listed again is
\* neither registered nor opened.
C33_EntryNameRegisteredOnce ==
  \A k \in Archives :
    /\ \A j \in DOMAIN sources[k].logs :
         Cardinality(RegisteredAs(k, sources[k].logs[j].path)) = 1
    /\ \A i \in 1..Len(MembersOf(sources[k].path)) :
         LET name == MembersOf(sources[k].path)[i] IN
         checkPathFilter(rexPathFilter, join(sources[k].path, name)).matched
           => /\ Cardinality(RegisteredAs(k, name)) = 1
              /\ \A other \in DOMAIN sources :
                   ForwardSlashes(sources[other].path)
                     # ForwardSlashes(join(sources[k].path, name))

\* C33 witness: the tar archive d/t.tar lists x.log twice and i.tar twice; with
\* the filter .*\.log it has x.log once.
C33_Witness ==
  /\ rexPathFilter = <<DotStar, ".log">>
  /\ paths = << <<"d">> >>
  /\ \E k \in Archives :
       /\ ForwardSlashes(sources[k].path) = <<"d", Slash, "t", ".tar">>
       /\ Len(sources[k].logs) = 1
       /\ sources[k].logs[1].path = <<"x", ".log">>

\* C33 witness of the entry with an archive extension: with the filter
\* .*i\.tar the archive d/t.tar has the entry i.tar once and no source has the
\* path of the entry.
C33_Witness_ArchiveEntry ==
  /\ rexPathFilter = <<DotStar, "i", ".tar">>
  /\ paths = << <<"d">> >>
  /\ \E k \in Archives :
       /\ ForwardSlashes(sources[k].path) = <<"d", Slash, "t", ".tar">>
       /\ Len(sources[k].logs) = 1
       /\ sources[k].logs[1].path = <<"i", ".tar">>
  /\ \A k \in DOMAIN sources : Len(sources[k].path) <= 4

----------------------------------------------------------------------------
(* The candidates that are no archives *)

\* C34 as stated: scanPaths raises no error, whatever candidates cannot be
\* opened as an archive, and every source it keeps has a registered file.
C34_Claimed_SkippedSilently ==
  /\ raised = NoError
  /\ \A k \in DOMAIN sources : sourceCount(sources[k]) > 0

----------------------------------------------------------------------------
(* The log files of a run *)

\* The texts of consecutive lines of the file read so far
TextsOfFile ==
  {JoinLines(logfile', first, last) : first \in 1..Len(logfile'), last \in 1..Len(logfile')}

\* The timestamps the timestamp pattern of the type finds on the lines of the
\* file read so far
StampsOfFile(evt) ==
  {StampValue(logfile'[i][1]) : i \in {j \in 1..Len(logfile') : searchTimestamp(evt, logfile'[j])}}

\* C35: when a file is opened for the scan and none of its lines is read, the
\* deque of the lines and the dict of the staged events are empty and the
\* line number is 0; every event a checkLine call stores has a raw text made
\* of lines of the file being read, a timestamp found on one of them or none,
\* and a line number within the file; the events stored before stay in the
\* store as they are.
C35_FileStateReset ==
  /\ []((scan = "reading" /\ logfile = <<>>)
          => (lines = <<>> /\ unfinishedEvents = EmptyDict /\ linenum = 0))
  /\ [][/\ \A event \in (Len(evs) + 1)..Len(evs') :
             /\ evs'[event].sfields["_raw"] \in TextsOfFile
             /\ evs'[event].timestamp
                  \in {TsMin} \cup StampsOfFile(EventTypes[evs'[event].eventType])
             /\ \E n \in -1..Len(logfile') : evs'[event].sfields["_line_number"] = IntStr(n)
        /\ SubSeq(sequence', 1, Len(sequence)) = sequence
        /\ \A event \in DOMAIN evs :
             /\ evs'[event].sfields["_raw"] = evs[event].sfields["_raw"]
             /\ evs'[event].timestamp = evs[event].timestamp
             /\ evs'[event].sfields["_line_number"] = evs[event].sfields["_line_number"]]_vars

\* C35 witness: the first file had the line '1 a', whose event has the
\* timestamp of that line; the second file has the one line 'a' and its event,
\* stored behind the first, has no timestamp and that line as its raw text.
C35_Witness ==
  /\ source = 2
  /\ scan = "closed"
  /\ logfile = << <<"a">> >>
  /\ \E event \in DOMAIN evs, later \in DOMAIN evs :
       /\ event < later
       /\ evs[event].sfields["_raw"] = <<"1", "a">>
       /\ evs[event].timestamp = TsMin + 1
       /\ evs[later].sfields["_raw"] = <<"a">>
       /\ evs[later].timestamp = TsMin
       /\ later = Len(evs)

----------------------------------------------------------------------------
(* The store under add_event, delete_event and sortEvents in any order *)

\* C36: the sequence numbers of the flat list increase strictly from the
\* oldest to the newest position, every one of them is below curSeqnum, the
\* number of the next event added, and no two events of the flat list have
\* both the same timestamp and the same sequence number, so that the sort
\* never gets None from __cmp__.
C36_FlatListIncreasesInSeqnum ==
  /\ \A i, j \in 1..Len(sequence) :
       i < j => /\ evs[sequence[i]].seqnum < evs[sequence[j]].seqnum
                /\ Cmp(evs[sequence[i]], evs[sequence[j]]) # None
  /\ \A i \in 1..Len(sequence) : evs[sequence[i]].seqnum < curSeqnum
  /\ (raised # NoError) => op.kind = "delete_event"

\* C36 witness: an event is added after a sort that has moved and renumbered
\* the events, one of them deleted before.
C36_Witness ==
  /\ op.kind = "add_event"
  /\ Len(sequence) = 2
  /\ Len(evs) = 3
  /\ sequence[1] > sequence[2] \/ evs[sequence[1]].seqnum # sequence[1] - 1
  /\ evs[sequence[1]].timestamp = evs[sequence[2]].timestamp
  /\ raised = NoError

\* The events of the flat list that have the event type name, in its order
OfType(name) == SelectSeq(sequence, LAMBDA event : evs[event].eventType = name)

\* C37: each type-keyed list is the flat list restricted to the events of
\* that type, in the same order, and no event occurs twice in the flat list;
\* so every event of the flat list is once in it and once in the list of its
\* type, and in no other list.
C37_TypeListsAreFlatListByType ==
  /\ \A name \in EventNames : lists[name] = OfType(name)
  /\ \A i, j \in 1..Len(sequence) : sequence[i] = sequence[j] => i = j

\* C37 witness: a store with events of both types after a deletion by a hook
\* and a sort that has changed the order of the flat list.
C37_Witness ==
  /\ op.kind = "sortEvents"
  /\ Len(evs) = 3
  /\ Len(sequence) = 2
  /\ sequence[1] > sequence[2]
  /\ \A name \in EventNames : Len(lists[name]) = 1
  /\ raised = NoError

----------------------------------------------------------------------------
(* get_events consumed by a hook that deletes events *)

\* C38 as claimed: one iteration over get_events yields no event twice.
\* Violated: the reversed-list iterator keeps a position in the live list, and
\* a deletion at or below that position moves the event just yielded onto it.
C38_Claimed_YieldedAtMostOnce ==
  op.kind = "get_events"
    => \A i, j \in 1..Len(op.yielded) : op.yielded[i] = op.yielded[j] => i = j

----------------------------------------------------------------------------
(* The verbosity of a run *)

\* C39 as claimed: a call of checkLine leaves the Event objects and the store
\* as the same call at verbosity 0 does.  Violated at verbosity 2: when no
\* line of the deque gave a timestamp, parseTimestamp is called once more on
\* the multiline string, and a call that raises in add_field has set the
\* timestamp of the event before.
C39_Claimed_VerbosityWithoutInfluence ==
  [][(op'.kind = "checkLine" /\ raised = NoError /\ scan = "reading")
       => LET quiet == checkLineVerbosity(Context, op'.line, op'.order, 0) IN
          /\ evs' = quiet.s.evs
          /\ sequence' = quiet.s.sequence
          /\ unfinishedEvents' = quiet.unfinishedEvents]_vars

----------------------------------------------------------------------------
(* The matches that create an event *)

\* C40 as claimed: for a type whose window is one line and that has no staged
\* event, every line the text pattern matches creates an event.  Violated by
\* every match that ends at offset 0: the test of checkLine asks for
\* len(line) - end < len(line), so a match of length zero at the start of a
\* line creates nothing, and no match creates an event on an empty line.
C40_Claimed_EveryMatchCreates ==
  op.kind = "checkLine"
    => (searchText(WithPattern(op.rexText), op.line).found => op.created)
====
